---- MODULE Spec2Model ----
(***************************************************************************)
(* rustybf: Brainfuck parser, optimizer, interpreter and code generator.   *)
(*                                                                         *)
(* The module models the language pipeline of the crate:                   *)
(*   parser.rs       parse, Position, Instruction                          *)
(*   optimizer/      Optimizer::with_passes_str, Optimizer::run, passes    *)
(*   interpreter.rs  Interpreter::run, compute_offset                      *)
(*   compiler.rs     Compiler::compile_instructions and the procedure it   *)
(*                   emits                                                 *)
(* Source offsets are 0-based as in the code; TLA+ sequences are 1-based,  *)
(* so byte source[i] has offset i - 1.                                     *)
(***************************************************************************)
EXTENDS Integers, Sequences, FiniteSets, TLC

VARIABLES
    source,         \* parse: the bytes of the reader r
    index,          \* parse: number of bytes consumed (offset of the next byte)
    instructions,   \* parse: the local `instructions`
    stack,          \* parse: the local `stack` of (parent instructions, '[' offset)
    parse_result,   \* parse: Pending until it returns, then Ok(value) or Err(error)
    interp,         \* Interpreter: its fields and the position of run in the instructions
    passes_str,     \* with_passes_str: the argument s, a sequence of characters
    names,          \* with_passes_str: the fields of s.split(',') not yet looked up
    passes,         \* with_passes_str: the local `passes`
    optimizer,      \* with_passes_str: Pending until it returns, then Ok(Optimizer) or Err
    optimized,      \* Optimizer::run: Pending until it returns, then Ok(its result)
    interp_opt,     \* Interpreter: the one that runs the result of Optimizer::run
    proc,           \* the procedure emitted by the Compiler and its execution
    given,          \* the arguments handed to the function under study
    calls,          \* the calls made on them so far, each with what it returned
    iterations,     \* Instruction::Loop: the times run(body) has been entered
    save            \* save_object / save_executable: its position and the files on disk

parser_vars == <<source, index, instructions, stack, parse_result>>

ctor_vars == <<passes_str, names, passes, optimizer>>

call_vars == <<given, calls, iterations, save>>

vars == <<source, index, instructions, stack, parse_result, interp,
          passes_str, names, passes, optimizer, optimized, interp_opt, proc,
          given, calls, iterations, save>>

(***************************************************************************)
(* Bounds of the model.                                                    *)
(***************************************************************************)
MaxSrcLen == 4
\* longest loop body and longest tail of the sources that are optimized
MaxBodyLen == 4
MaxTailLen == 2
\* largest number of instructions (loops and their bodies counted) of a
\* program handed to the interpreter
MaxProgSize == 3
\* largest tape_size given to the InterpreterBuilder
MaxTapeSize == 2
\* largest number of bytes of a configured input stream
MaxInputLen == 1
\* largest number of bytes the output stream is let to receive
MaxOutputLen == 3
\* largest number of comma-separated fields of a pass list
MaxFields == 2

(***************************************************************************)
(* Helpers.                                                                *)
(***************************************************************************)
Min(a, b) == IF a <= b THEN a ELSE b
Max(a, b) == IF a >= b THEN a ELSE b

SeqsUpTo(S, n) == UNION {[1..k -> S] : k \in 0..n}

Last(s) == s[Len(s)]
Front(s) == SubSeq(s, 1, Len(s) - 1)

(***************************************************************************)
(* parser.rs: Position and Instruction.                                    *)
(***************************************************************************)
Position(s, e) == [start |-> s, end |-> e]

\* impl From<usize> for Position
PositionFrom(i) == Position(i, i)

\* Position::merge
merge(a, b) == Position(Min(a.start, b.start), Max(a.end, b.end))

\* u8::MAX
U8_MAX == 255

\* Wrapping<u8> arithmetic
Wrap8(n) == n % 256

Add(a, pos) == [op |-> "Add", amount |-> a, position |-> pos]
Move(k, pos) == [op |-> "Move", offset |-> k, position |-> pos]
Input(pos) == [op |-> "Input", position |-> pos]
Output(pos) == [op |-> "Output", position |-> pos]
Loop(b, pos) == [op |-> "Loop", body |-> b, position |-> pos]
Clear(pos) == [op |-> "Clear", position |-> pos]
Mul(k, a, pos) == [op |-> "Mul", offset |-> k, amount |-> a, position |-> pos]

\* Instruction::is_loop
is_loop(i) == i.op \in {"Loop", "Clear", "Mul"}

\* Instruction::clears_current_cell
clears_current_cell(i) == i.op \in {"Loop", "Clear"}

(***************************************************************************)
(* parser.rs: the bytes parse matches on.                                  *)
(***************************************************************************)
BYTE_GT == 62
BYTE_LT == 60
BYTE_PLUS == 43
BYTE_MINUS == 45
BYTE_DOT == 46
BYTE_COMMA == 44
BYTE_OPEN == 91
BYTE_CLOSE == 93
\* a byte that is none of the eight tokens ('x')
BYTE_OTHER == 120

SimpleTokens == {BYTE_GT, BYTE_LT, BYTE_PLUS, BYTE_MINUS, BYTE_DOT, BYTE_COMMA}
Tokens == SimpleTokens \cup {BYTE_OPEN, BYTE_CLOSE}
SrcBytes == Tokens \cup {BYTE_OTHER}

(***************************************************************************)
(* parser.rs: parse.  The state of the function is ps = [instructions,     *)
(* stack, result]; result is Pending while the loop runs.                  *)
(***************************************************************************)
Pending == [kind |-> "Pending"]
Ok(v) == [kind |-> "Ok", value |-> v]
Err(e) == [kind |-> "Err", error |-> e]

ParseError(msg, pos) == [kind |-> "ParseError", message |-> msg, position |-> pos]

\* mutant of parse_token: '<' moves right
parse_token_lt_right(ps, idx, b) ==
    LET pos == PositionFrom(idx)
        inst == CASE b = BYTE_GT -> Move(1, pos)
                  [] b = BYTE_LT -> Move(1, pos)
                  [] b = BYTE_PLUS -> Add(1, pos)
                  [] b = BYTE_MINUS -> Add(U8_MAX, pos)
                  [] b = BYTE_DOT -> Output(pos)
                  [] b = BYTE_COMMA -> Input(pos)
    IN  [ps EXCEPT !.instructions = Append(@, inst)]

\* the arms of the match for the six tokens that push one instruction
parse_token(ps, idx, b) ==
    LET pos == PositionFrom(idx)
        inst == CASE b = BYTE_GT -> Move(1, pos)
                  [] b = BYTE_LT -> Move(-1, pos)
                  [] b = BYTE_PLUS -> Add(1, pos)
                  [] b = BYTE_MINUS -> Add(U8_MAX, pos)
                  [] b = BYTE_DOT -> Output(pos)
                  [] b = BYTE_COMMA -> Input(pos)
    IN  [ps EXCEPT !.instructions = Append(@, inst)]

\* Ok(b'[')
parse_open(ps, idx) ==
    [ps EXCEPT !.stack = Append(@, [instructions |-> ps.instructions, index |-> idx]),
               !.instructions = <<>>]

\* mutant of parse_close: a ']' met with an empty stack is skipped
parse_close_lenient(ps, idx) ==
    IF ps.stack # <<>>
    THEN LET top == Last(ps.stack)
         IN  [ps EXCEPT !.instructions =
                            Append(top.instructions,
                                   Loop(ps.instructions, Position(top.index, idx))),
                        !.stack = Front(@)]
    ELSE ps

\* Ok(b']')
parse_close(ps, idx) ==
    IF ps.stack # <<>>
    THEN LET top == Last(ps.stack)
         IN  [ps EXCEPT !.instructions =
                            Append(top.instructions,
                                   Loop(ps.instructions, Position(top.index, idx))),
                        !.stack = Front(@)]
    ELSE [instructions |-> <<>>, stack |-> <<>>,
          result |-> Err(ParseError("This ] has no matching opening [.", PositionFrom(idx)))]

\* mutant of parse_other: an unknown byte is taken for a '+'
parse_other_as_add(ps, idx, b) ==
    [ps EXCEPT !.instructions = Append(@, Add(1, PositionFrom(idx)))]

\* Ok(_): every other byte is ignored
parse_other(ps, idx, b) == ps

\* one iteration of `for (index, res) in r.bytes().enumerate()`
parse_byte(ps, idx, b) ==
    CASE b \in SimpleTokens -> parse_token(ps, idx, b)
      [] b = BYTE_OPEN -> parse_open(ps, idx)
      [] b = BYTE_CLOSE -> parse_close(ps, idx)
      [] OTHER -> parse_other(ps, idx, b)

\* mutant of parse_eof: the bottom of the stack is reported
parse_eof_bottom(ps) ==
    IF ps.stack # <<>>
    THEN [instructions |-> <<>>, stack |-> <<>>,
          result |-> Err(ParseError("This [ has no matching closing ].",
                                    PositionFrom(ps.stack[1].index)))]
    ELSE [instructions |-> <<>>, stack |-> <<>>, result |-> Ok(ps.instructions)]

\* the code after the loop: the stack is popped once more
parse_eof(ps) ==
    IF ps.stack # <<>>
    THEN [instructions |-> <<>>, stack |-> <<>>,
          result |-> Err(ParseError("This [ has no matching closing ].",
                                    PositionFrom(Last(ps.stack).index)))]
    ELSE [instructions |-> <<>>, stack |-> <<>>, result |-> Ok(ps.instructions)]

ParseStart == [instructions |-> <<>>, stack |-> <<>>, result |-> Pending]

RECURSIVE parse_from(_, _, _)
parse_from(ps, src, idx) ==
    IF ps.result # Pending THEN ps.result
    ELSE IF idx = Len(src) THEN parse_eof(ps).result
    ELSE parse_from(parse_byte(ps, idx, src[idx + 1]), src, idx + 1)

\* parse as a function of the whole byte sequence
parse(src) == parse_from(ParseStart, src, 0)

(***************************************************************************)
(* interpreter.rs: Interpreter.                                            *)
(*                                                                         *)
(* tape is the vector of tape_len cells, kept as the function from the     *)
(* indices of its non-zero cells to their values (every other cell of      *)
(* 0..tape_len-1 holds 0).  input is None or Some(bytes not yet read),     *)
(* output is None or Some(bytes written).  frames is the chain of active   *)
(* calls of run, outermost first: each is the slice it iterates and the    *)
(* 1-based position of its `for`.  status is Running until the outermost   *)
(* run returns, then Ok or the BrainfuckError returned; an error leaves    *)
(* frames at the instruction that raised it.                               *)
(***************************************************************************)
None == [kind |-> "None"]
Some(v) == [kind |-> "Some", value |-> v]

\* InterpreterBuilder::new: the default tape size
DEFAULT_TAPE_SIZE == 30000

EmptyTape == [j \in {} |-> 0]
TapeGet(tape, i) == IF i \in DOMAIN tape THEN tape[i] ELSE 0
TapeSet(tape, i, v) ==
    [j \in (IF v = 0 THEN DOMAIN tape \ {i} ELSE DOMAIN tape \cup {i}) |->
        IF j = i THEN v ELSE tape[j]]

\* no interpreter built
NoInterpreter == [status |-> "None"]

\* no procedure compiled
NoProcedure == [status |-> "None"]

\* InterpreterBuilder::build followed by the call of run(instructions)
build_and_run(tape_size, input, output, instrs) ==
    [tape |-> EmptyTape,
     tape_len |-> tape_size,
     tape_position |-> 0,
     input |-> input,
     output |-> output,
     frames |-> <<[code |-> instrs, pc |-> 1]>>,
     status |-> "Running"]

CurFrame(st) == Last(st.frames)
AtEnd(st) == CurFrame(st).pc > Len(CurFrame(st).code)
CurInst(st) == CurFrame(st).code[CurFrame(st).pc]
CurCell(st) == TapeGet(st.tape, st.tape_position)

\* the `for` moves to the next instruction
Advance(st) == [st EXCEPT !.frames[Len(st.frames)].pc = @ + 1]

\* `?`: the error is returned by run and by every run that called it
Fail(st, e) == [st EXCEPT !.status = e]

\* mutant of compute_offset: the upper bound is tested with >
compute_offset_off_by_one(st, offset) ==
    LET target_pos == st.tape_position + offset
    IN  IF target_pos < 0 THEN Err("TapeUnderflow")
        ELSE IF target_pos > st.tape_len THEN Err("TapeOverflow")
        ELSE Ok(target_pos)

\* Interpreter::compute_offset
compute_offset(st, offset) ==
    LET target_pos == st.tape_position + offset
    IN  IF target_pos < 0 THEN Err("TapeUnderflow")
        ELSE IF target_pos >= st.tape_len THEN Err("TapeOverflow")
        ELSE Ok(target_pos)

\* Instruction::Move
exec_move(st, inst) ==
    LET new_offset == compute_offset(st, inst.offset)
    IN  IF new_offset.kind = "Err" THEN Fail(st, new_offset.error)
        ELSE Advance([st EXCEPT !.tape_position = new_offset.value])

\* Instruction::Add
exec_add(st, inst) ==
    Advance([st EXCEPT !.tape = TapeSet(@, st.tape_position, Wrap8(CurCell(st) + inst.amount))])

\* mutant of exec_input: end of file stores 255 and goes on
exec_input_eof_255(st, inst) ==
    IF st.input.kind = "Some"
    THEN IF st.input.value = <<>>
         THEN Advance([st EXCEPT !.tape = TapeSet(@, st.tape_position, 255)])
         ELSE Advance([st EXCEPT !.tape = TapeSet(@, st.tape_position, Head(st.input.value)),
                                 !.input = Some(Tail(st.input.value))])
    ELSE Advance([st EXCEPT !.tape = TapeSet(@, st.tape_position, 0)])

\* Instruction::Input; read_exact fails at end of file and leaves buf alone
exec_input(st, inst) ==
    IF st.input.kind = "Some"
    THEN IF st.input.value = <<>>
         THEN Fail(st, "IoError")
         ELSE Advance([st EXCEPT !.tape = TapeSet(@, st.tape_position, Head(st.input.value)),
                                 !.input = Some(Tail(st.input.value))])
    ELSE Advance([st EXCEPT !.tape = TapeSet(@, st.tape_position, 0)])

\* Instruction::Output
exec_output(st, inst) ==
    IF st.output.kind = "Some"
    THEN Advance([st EXCEPT !.output = Some(Append(st.output.value, CurCell(st)))])
    ELSE Advance(st)

\* Instruction::Loop: the test of the `while`; a true test calls run(body),
\* a false one ends the loop
exec_loop(st, inst) ==
    IF CurCell(st) # 0
    THEN [st EXCEPT !.frames = Append(@, [code |-> inst.body, pc |-> 1])]
    ELSE Advance(st)

\* Instruction::Clear
exec_clear(st, inst) ==
    Advance([st EXCEPT !.tape = TapeSet(@, st.tape_position, 0)])

\* mutant of exec_mul: no test of the current cell
exec_mul_unguarded(st, inst) ==
    LET target_pos == compute_offset(st, inst.offset)
    IN  IF target_pos.kind = "Err" THEN Fail(st, target_pos.error)
        ELSE LET tmp == Wrap8(CurCell(st) * inst.amount)
             IN  Advance([st EXCEPT !.tape =
                    TapeSet(@, target_pos.value, Wrap8(TapeGet(@, target_pos.value) + tmp))])

\* Instruction::Mul
exec_mul(st, inst) ==
    IF CurCell(st) = 0 THEN Advance(st)
    ELSE LET target_pos == compute_offset(st, inst.offset)
         IN  IF target_pos.kind = "Err" THEN Fail(st, target_pos.error)
             ELSE LET tmp == Wrap8(CurCell(st) * inst.amount)
                  IN  Advance([st EXCEPT !.tape =
                         TapeSet(@, target_pos.value, Wrap8(TapeGet(@, target_pos.value) + tmp))])

\* the `for` of a run is exhausted: run returns Ok(()); the caller, if any,
\* is at the `while` of its Loop and tests it again
run_return(st) ==
    IF Len(st.frames) = 1
    THEN [st EXCEPT !.status = "Ok"]
    ELSE [st EXCEPT !.frames = Front(@)]

\* one step of Interpreter::run
run_step(st) ==
    IF st.status # "Running" THEN st
    ELSE IF AtEnd(st) THEN run_return(st)
    ELSE LET inst == CurInst(st)
         IN  CASE inst.op = "Move" -> exec_move(st, inst)
               [] inst.op = "Add" -> exec_add(st, inst)
               [] inst.op = "Input" -> exec_input(st, inst)
               [] inst.op = "Output" -> exec_output(st, inst)
               [] inst.op = "Loop" -> exec_loop(st, inst)
               [] inst.op = "Clear" -> exec_clear(st, inst)
               [] inst.op = "Mul" -> exec_mul(st, inst)

(***************************************************************************)
(* optimizer/mod.rs: the pass registry and Optimizer::with_passes_str.     *)
(* A &str is the sequence of its characters.  A pass is named by its       *)
(* struct.                                                                 *)
(***************************************************************************)
STR_NONE == <<"n", "o", "n", "e">>
STR_ALL == <<"a", "l", "l">>
STR_CLEAR_LOOPS == <<"c", "l", "e", "a", "r", "-", "l", "o", "o", "p", "s">>
STR_MUL_LOOPS == <<"m", "u", "l", "-", "l", "o", "o", "p", "s">>
STR_COLLAPSE_INCREMENTS == <<"c", "o", "l", "l", "a", "p", "s", "e", "-", "i", "n", "c", "r", "e", "m", "e", "n", "t", "s">>
STR_DEAD_CODE == <<"d", "e", "a", "d", "-", "c", "o", "d", "e">>

\* Pass::name of the four passes of passes.rs
pass_name(pass) ==
    CASE pass = "CollapseIncrements" -> STR_COLLAPSE_INCREMENTS
      [] pass = "DeadCode" -> STR_DEAD_CODE
      [] pass = "ClearLoops" -> STR_CLEAR_LOOPS
      [] pass = "MulLoops" -> STR_MUL_LOOPS

\* mutant of ALL_OPTIMIZATIONS: clear-loops is registered as MulLoops
ALL_OPTIMIZATIONS_swapped ==
    (STR_CLEAR_LOOPS :> "MulLoops") @@ (STR_MUL_LOOPS :> "MulLoops")
        @@ (STR_COLLAPSE_INCREMENTS :> "CollapseIncrements") @@ (STR_DEAD_CODE :> "DeadCode")

\* ALL_OPTIMIZATIONS
ALL_OPTIMIZATIONS ==
    (STR_CLEAR_LOOPS :> "ClearLoops") @@ (STR_MUL_LOOPS :> "MulLoops")
        @@ (STR_COLLAPSE_INCREMENTS :> "CollapseIncrements") @@ (STR_DEAD_CODE :> "DeadCode")

\* DEFAULT_OPTIMIZATION_PASSES
DEFAULT_OPTIMIZATION_PASSES ==
    <<ALL_OPTIMIZATIONS[STR_DEAD_CODE], ALL_OPTIMIZATIONS[STR_COLLAPSE_INCREMENTS],
      ALL_OPTIMIZATIONS[STR_MUL_LOOPS]>>

\* str::split(','): the substrings between the commas, empty ones included
RECURSIVE split(_)
split(s) ==
    IF \A i \in 1..Len(s) : s[i] # ","
    THEN <<s>>
    ELSE LET i == CHOOSE k \in 1..Len(s) : s[k] = "," /\ \A j \in 1..(k - 1) : s[j] # ","
         IN  <<SubSeq(s, 1, i - 1)>> \o split(SubSeq(s, i + 1, Len(s)))

UnknownOptimizationPass(name) == [kind |-> "UnknownOptimizationPass", name |-> name]

\* Optimizer { passes }
Optimizer(ps) == [passes |-> ps]

\* mutant of lookup_pass: names are compared without regard to case
lookup_pass_ignore_case(name) ==
    LET lower(c) == IF c = "D" THEN "d" ELSE c
        folded == [i \in 1..Len(name) |-> lower(name[i])]
    IN  IF folded \in DOMAIN ALL_OPTIMIZATIONS THEN Some(ALL_OPTIMIZATIONS[folded]) ELSE None

\* ALL_OPTIMIZATIONS.get(name)
lookup_pass(name) ==
    IF name \in DOMAIN ALL_OPTIMIZATIONS THEN Some(ALL_OPTIMIZATIONS[name]) ELSE None

(***************************************************************************)
(* optimizer/passes.rs: the four passes.                                   *)
(*                                                                         *)
(* passes.rs writes pointer moves as Left { amount } and Right { amount }; *)
(* the Instruction of parser.rs has the one variant Move { offset }.       *)
(* Left { amount: a } is Move { offset: -a } and Right { amount: a } is    *)
(* Move { offset: a }.  Move { offset: 0 } is Left { 0 } and Right { 0 }   *)
(* alike, which every arm below treats alike.                              *)
(***************************************************************************)
Left(a, pos) == Move(-a, pos)
Right(a, pos) == Move(a, pos)
IsLeft(i) == i.op = "Move" /\ i.offset < 0
IsRight(i) == i.op = "Move" /\ i.offset >= 0
MoveAmount(i) == IF i.offset < 0 THEN -i.offset ELSE i.offset

RECURSIVE collapse_increments(_)

\* the closure with one more arm, which merges two Outputs
collapse_pair_merges_output(a, b) ==
    IF a.op = "Output" /\ b.op = "Output"
    THEN Ok(Output(merge(a.position, b.position)))
    ELSE CASE a.op = "Add" /\ b.op = "Add" ->
            Ok(Add(Wrap8(a.amount + b.amount), merge(a.position, b.position)))
      [] a.op = "Move" /\ b.op = "Move" ->
            Ok(Move(a.offset + b.offset, merge(a.position, b.position)))
      [] a.op = "Clear" /\ b.op = "Clear" ->
            Ok(Clear(merge(a.position, b.position)))
      [] a.op = "Loop" ->
            Err(<<Loop(collapse_increments(a.body), a.position), b>>)
      [] OTHER -> Err(<<a, b>>)

\* the closure given to coalesce by CollapseIncrements::run
collapse_pair(a, b) ==
    CASE a.op = "Add" /\ b.op = "Add" ->
            Ok(Add(Wrap8(a.amount + b.amount), merge(a.position, b.position)))
      [] IsLeft(a) /\ IsLeft(b) ->
            Ok(Left(MoveAmount(a) + MoveAmount(b), merge(a.position, b.position)))
      [] IsRight(a) /\ IsRight(b) ->
            Ok(Right(MoveAmount(a) + MoveAmount(b), merge(a.position, b.position)))
      [] (IsLeft(a) /\ IsRight(b)) \/ (IsRight(a) /\ IsLeft(b)) ->
            LET l == IF IsLeft(a) THEN MoveAmount(a) ELSE MoveAmount(b)
                r == IF IsLeft(a) THEN MoveAmount(b) ELSE MoveAmount(a)
            IN  IF l >= r
                THEN Ok(Left(l - r, merge(a.position, b.position)))
                ELSE Ok(Right(r - l, merge(a.position, b.position)))
      [] a.op = "Clear" /\ b.op = "Clear" ->
            Ok(Clear(merge(a.position, b.position)))
      [] a.op = "Loop" ->
            Err(<<Loop(collapse_increments(a.body), a.position), b>>)
      [] OTHER -> Err(<<a, b>>)

\* Itertools::coalesce with collapse_pair: `last` is the pending element
RECURSIVE collapse_coalesce(_, _)
collapse_coalesce(last, rest) ==
    IF rest = <<>> THEN <<last>>
    ELSE LET r == collapse_pair(last, Head(rest))
         IN  IF r.kind = "Ok"
             THEN collapse_coalesce(r.value, Tail(rest))
             ELSE <<r.error[1]>> \o collapse_coalesce(r.error[2], Tail(rest))

\* CollapseIncrements::run
collapse_increments(instrs) ==
    IF instrs = <<>> THEN <<>> ELSE collapse_coalesce(Head(instrs), Tail(instrs))

\* the filter of DeadCode::run: no Add { 0 }, Right { 0 }, Left { 0 }
not_null_increment(i) ==
    ~ \/ (i.op = "Add" /\ i.amount = 0)
      \/ (i.op = "Move" /\ i.offset = 0)

\* the closure with the Positions of the fused pair merged
dead_pair_merges_position(a, b) ==
    IF a.op = "Loop" /\ b.op \in {"Loop", "Clear"}
    THEN Ok(Loop(a.body, merge(a.position, b.position)))
    ELSE Err(<<a, b>>)

\* the closure given to coalesce by DeadCode::run
dead_pair(a, b) ==
    IF a.op = "Loop" /\ b.op \in {"Loop", "Clear"} THEN Ok(a) ELSE Err(<<a, b>>)

\* Itertools::coalesce with dead_pair
RECURSIVE dead_coalesce(_, _)
dead_coalesce(last, rest) ==
    IF rest = <<>> THEN <<last>>
    ELSE LET r == dead_pair(last, Head(rest))
         IN  IF r.kind = "Ok"
             THEN dead_coalesce(r.value, Tail(rest))
             ELSE <<r.error[1]>> \o dead_coalesce(r.error[2], Tail(rest))

\* skip_while(|i| i is a Loop)
RECURSIVE skip_while_loop(_)
skip_while_loop(instrs) ==
    IF instrs # <<>> /\ Head(instrs).op = "Loop"
    THEN skip_while_loop(Tail(instrs))
    ELSE instrs

\* DeadCode::run without the map that runs DeadCode on the bodies
dead_code_flat(instrs) ==
    LET filtered == SelectSeq(instrs, not_null_increment)
        coalesced == IF filtered = <<>> THEN <<>>
                     ELSE dead_coalesce(Head(filtered), Tail(filtered))
    IN  skip_while_loop(coalesced)

\* DeadCode::run: filter, coalesce, skip_while, then the map that runs
\* DeadCode on the body of every Loop left
RECURSIVE dead_code(_)
dead_code(instrs) ==
    LET filtered == SelectSeq(instrs, not_null_increment)
        coalesced == IF filtered = <<>> THEN <<>>
                     ELSE dead_coalesce(Head(filtered), Tail(filtered))
        skipped == skip_while_loop(coalesced)
    IN  [k \in 1..Len(skipped) |->
            IF skipped[k].op = "Loop"
            THEN Loop(dead_code(skipped[k].body), skipped[k].position)
            ELSE skipped[k]]

\* ClearLoops::run with the amount of the Add not tested
RECURSIVE clear_loops_any_amount(_)
clear_loops_any_amount(instrs) ==
    LET cleared == [k \in 1..Len(instrs) |->
                      LET i == instrs[k]
                      IN  IF /\ i.op = "Loop"
                             /\ Len(i.body) = 1
                             /\ i.body[1].op = "Add"
                          THEN Clear(i.position)
                          ELSE i]
    IN  [k \in 1..Len(cleared) |->
            IF cleared[k].op = "Loop"
            THEN Loop(clear_loops_any_amount(cleared[k].body), cleared[k].position)
            ELSE cleared[k]]

\* ClearLoops::run
RECURSIVE clear_loops(_)
clear_loops(instrs) ==
    LET cleared == [k \in 1..Len(instrs) |->
                      LET i == instrs[k]
                      IN  IF /\ i.op = "Loop"
                             /\ Len(i.body) = 1
                             /\ i.body[1].op = "Add"
                             /\ i.body[1].amount = 255
                          THEN Clear(i.position)
                          ELSE i]
    IN  [k \in 1..Len(cleared) |->
            IF cleared[k].op = "Loop"
            THEN Loop(clear_loops(cleared[k].body), cleared[k].position)
            ELSE cleared[k]]

\* the `for` of recognize_mul_loop with the entry overwritten by each Add
RECURSIVE recognize_rest_overwrites(_, _, _)
recognize_rest_overwrites(rest, offset, res) ==
    IF rest = <<>>
    THEN IF offset # 0 THEN None ELSE Some(res)
    ELSE LET i == Head(rest)
         IN  CASE i.op = "Move" ->
                    recognize_rest_overwrites(Tail(rest), offset + i.offset, res)
               [] i.op = "Add" ->
                    IF offset = 0 THEN None
                    ELSE recognize_rest_overwrites(Tail(rest), offset,
                            [k \in DOMAIN res \cup {offset} |->
                                IF k = offset THEN i.amount ELSE res[k]])
               [] OTHER -> None

\* the `for` of recognize_mul_loop without the test of the offset of an Add
RECURSIVE recognize_rest_counter_adds(_, _, _)
recognize_rest_counter_adds(rest, offset, res) ==
    IF rest = <<>>
    THEN IF offset # 0 THEN None ELSE Some(res)
    ELSE LET i == Head(rest)
         IN  CASE i.op = "Move" ->
                    recognize_rest_counter_adds(Tail(rest), offset + i.offset, res)
               [] i.op = "Add" ->
                    LET x == IF offset \in DOMAIN res THEN res[offset] ELSE 0
                    IN  recognize_rest_counter_adds(Tail(rest), offset,
                           [k \in DOMAIN res \cup {offset} |->
                               IF k = offset THEN Wrap8(x + i.amount) ELSE res[k]])
               [] OTHER -> None

\* the `for i in &instructions[1..]` of recognize_mul_loop; res is the
\* HashMap, a function from the offsets entered to their factors
RECURSIVE recognize_rest(_, _, _)
recognize_rest(rest, offset, res) ==
    IF rest = <<>>
    THEN IF offset # 0 THEN None ELSE Some(res)
    ELSE LET i == Head(rest)
         IN  CASE IsLeft(i) -> recognize_rest(Tail(rest), offset - MoveAmount(i), res)
               [] IsRight(i) -> recognize_rest(Tail(rest), offset + MoveAmount(i), res)
               [] i.op = "Add" ->
                    IF offset = 0 THEN None
                    ELSE LET x == IF offset \in DOMAIN res THEN res[offset] ELSE 0
                         IN  recognize_rest(Tail(rest), offset,
                                [k \in DOMAIN res \cup {offset} |->
                                    IF k = offset THEN Wrap8(x + i.amount) ELSE res[k]])
               [] OTHER -> None

\* recognize_mul_loop with the `for` run over the first instruction too
recognize_mul_loop_from_first(instrs) ==
    IF instrs = <<>> THEN None
    ELSE IF ~(Head(instrs).op = "Add" /\ Head(instrs).amount = 255) THEN None
    ELSE recognize_rest_counter_adds(instrs, 0, [k \in {} |-> 0])

\* recognize_mul_loop without the test of the first instruction
recognize_mul_loop_any_first(instrs) ==
    IF instrs = <<>> THEN None
    ELSE recognize_rest(Tail(instrs), 0, [k \in {} |-> 0])

\* recognize_mul_loop
recognize_mul_loop(instrs) ==
    IF instrs = <<>> THEN None
    ELSE IF ~(Head(instrs).op = "Add" /\ Head(instrs).amount = 255) THEN None
    ELSE recognize_rest(Tail(instrs), 0, [k \in {} |-> 0])

\* the orders in which a HashMap with the keys S can be iterated
IterationOrders(S) ==
    {s \in [1..Cardinality(S) -> S] : \A i, j \in 1..Cardinality(S) : i # j => s[i] # s[j]}

\* MulLoops::run with the loops of an empty map left as they are
RECURSIVE mul_loops_needs_entry(_)
mul_loops_needs_entry(instrs) ==
    IF instrs = <<>> THEN {<<>>}
    ELSE LET i == Head(instrs)
             multiplications == IF i.op = "Loop" THEN recognize_mul_loop(i.body) ELSE None
             first ==
                IF i.op = "Loop" /\ multiplications.kind = "Some"
                    /\ DOMAIN multiplications.value # {}
                THEN {[k \in 1..Len(order) |->
                          Mul(order[k], multiplications.value[order[k]], i.position)]
                        \o <<Clear(i.position)>> :
                      order \in IterationOrders(DOMAIN multiplications.value)}
                ELSE IF i.op = "Loop"
                THEN {<<Loop(b, i.position)>> : b \in mul_loops_needs_entry(i.body)}
                ELSE {<<i>>}
         IN  {f \o r : f \in first, r \in mul_loops_needs_entry(Tail(instrs))}

\* MulLoops::run with the Clear before the Muls
RECURSIVE mul_loops_clear_first(_)
mul_loops_clear_first(instrs) ==
    IF instrs = <<>> THEN {<<>>}
    ELSE LET i == Head(instrs)
             multiplications == IF i.op = "Loop" THEN recognize_mul_loop(i.body) ELSE None
             first ==
                IF i.op = "Loop" /\ multiplications.kind = "Some"
                THEN {<<Clear(i.position)>> \o
                      [k \in 1..Len(order) |->
                          Mul(order[k], multiplications.value[order[k]], i.position)] :
                      order \in IterationOrders(DOMAIN multiplications.value)}
                ELSE IF i.op = "Loop"
                THEN {<<Loop(b, i.position)>> : b \in mul_loops_clear_first(i.body)}
                ELSE {<<i>>}
         IN  {f \o r : f \in first, r \in mul_loops_clear_first(Tail(instrs))}

\* MulLoops::run without the recursion inside the surviving loops
RECURSIVE mul_loops_flat(_)
mul_loops_flat(instrs) ==
    IF instrs = <<>> THEN {<<>>}
    ELSE LET i == Head(instrs)
             multiplications == IF i.op = "Loop" THEN recognize_mul_loop(i.body) ELSE None
             first ==
                IF i.op = "Loop" /\ multiplications.kind = "Some"
                THEN {[k \in 1..Len(order) |->
                          Mul(order[k], multiplications.value[order[k]], i.position)]
                        \o <<Clear(i.position)>> :
                      order \in IterationOrders(DOMAIN multiplications.value)}
                ELSE {<<i>>}
         IN  {f \o r : f \in first, r \in mul_loops_flat(Tail(instrs))}

\* MulLoops::run.  The Muls of a recognized loop come in the iteration order
\* of the HashMap, which the code does not fix: the operator gives the set
\* of the sequences a call can return.
RECURSIVE mul_loops(_)
mul_loops(instrs) ==
    IF instrs = <<>> THEN {<<>>}
    ELSE LET i == Head(instrs)
             multiplications == IF i.op = "Loop" THEN recognize_mul_loop(i.body) ELSE None
             first ==
                IF i.op = "Loop" /\ multiplications.kind = "Some"
                THEN {[k \in 1..Len(order) |->
                          Mul(order[k], multiplications.value[order[k]], i.position)]
                        \o <<Clear(i.position)>> :
                      order \in IterationOrders(DOMAIN multiplications.value)}
                ELSE IF i.op = "Loop"
                THEN {<<Loop(b, i.position)>> : b \in mul_loops(i.body)}
                ELSE {<<i>>}
         IN  {f \o r : f \in first, r \in mul_loops(Tail(instrs))}

\* Pass::run of the pass a registry entry holds: the set of its results
pass_run(pass, instrs) ==
    CASE pass = "CollapseIncrements" -> {collapse_increments(instrs)}
      [] pass = "DeadCode" -> {dead_code(instrs)}
      [] pass = "ClearLoops" -> {clear_loops(instrs)}
      [] pass = "MulLoops" -> mul_loops(instrs)

(***************************************************************************)
(* optimizer/mod.rs: Optimizer::run.                                       *)
(***************************************************************************)
\* the number of times Optimizer::run repeats the list of passes
ROUNDS == 10

\* `for pass in &self.passes { accum = pass.run(accum) }`, from every
\* value accum can have
RECURSIVE run_passes(_, _)
run_passes(ps, accums) ==
    IF ps = <<>> THEN accums
    ELSE run_passes(Tail(ps), UNION {pass_run(Head(ps), accum) : accum \in accums})

\* `for _ in 0..10`
RECURSIVE run_rounds(_, _, _)
run_rounds(n, ps, accums) ==
    IF n = 0 THEN accums
    ELSE run_rounds(n - 1, ps, run_passes(ps, accums))

\* Optimizer::run: the set of the sequences it can return
optimizer_run(opt, instrs) == run_rounds(ROUNDS, opt.passes, {instrs})

\* the `for name in s.split(',')` of with_passes_str
RECURSIVE lookup_names(_, _)
lookup_names(ns, ps) ==
    IF ns = <<>> THEN Ok(Optimizer(ps))
    ELSE IF lookup_pass(Head(ns)).kind = "Some"
    THEN lookup_names(Tail(ns), Append(ps, lookup_pass(Head(ns)).value))
    ELSE Err(UnknownOptimizationPass(Head(ns)))

\* Optimizer::with_passes_str as a function of s
with_passes_str(s) ==
    CASE s = STR_NONE -> Ok(Optimizer(<<>>))
      [] s = STR_ALL -> Ok(Optimizer(DEFAULT_OPTIMIZATION_PASSES))
      [] OTHER -> lookup_names(split(s), <<>>)

(***************************************************************************)
(* compiler.rs: Compiler::compile_instructions and the procedure `main`    *)
(* it emits.  The blocks of the procedure are laid out one after the       *)
(* other: a branch holds the distance to its target.                       *)
(***************************************************************************)
\* the number of cells new_with_io asks calloc for
TAPE_CELLS == 30000

\* i32_type.const_int(*offset as u64, false): the low 32 bits of the
\* offset, taken here as two halves of 16 bits, which getelementptr reads
\* as a signed index
AsI32(n) ==
    LET low == n % 65536
        high == (n \div 65536) % 65536
    IN  (IF high >= 32768 THEN high - 65536 ELSE high) * 65536 + low

\* build_int_truncate(value, i8_type)
Trunc8(n) == n % 256

\* build_int_s_extend(value, i32_type)
SExt32(v) == IF v >= 128 THEN v - 256 ELSE v

\* `value as u8` of putchar_interceptor
AsU8(n) == n % 256

\* compile_instructions: the code emitted for a sequence of instructions
RECURSIVE compile_instructions(_)
compile_instructions(instrs) ==
    IF instrs = <<>> THEN <<>>
    ELSE LET i == Head(instrs)
             emitted ==
                CASE i.op = "Add" -> <<[op |-> "add", amount |-> i.amount]>>
                  [] i.op = "Move" -> <<[op |-> "gep", index |-> AsI32(i.offset)]>>
                  [] i.op = "Input" -> <<[op |-> "getchar"]>>
                  [] i.op = "Output" -> <<[op |-> "putchar"]>>
                  [] i.op = "Loop" ->
                        LET loop_body == compile_instructions(i.body)
                        IN  <<[op |-> "loop_guard", loop_end |-> Len(loop_body) + 2]>>
                            \o loop_body
                            \o <<[op |-> "br", loop_guard |-> -(Len(loop_body) + 1)]>>
                  [] i.op = "Clear" -> <<[op |-> "store0"]>>
                  [] i.op = "Mul" ->
                        <<[op |-> "mul", index |-> AsI32(i.offset), amount |-> i.amount]>>
         IN  emitted \o compile_instructions(Tail(instrs))

\* finish: free(tape) and the return
finish(code) == Append(code, [op |-> "ret"])

\* Compiler::new_with_io(..).compile_instructions(instrs).finish() with the
\* bytes of a Custom input: the procedure, not yet called
CompiledProgram(instrs, input) ==
    [status |-> "Compiled",
     code |-> finish(compile_instructions(instrs)),
     pc |-> 1,
     ptr |-> [addr |-> 0, poison |-> FALSE],
     tape |-> EmptyTape,
     input |-> input,
     output |-> <<>>]

\* CompiledProgram::run: main is called
jit_run(st) == [st EXCEPT !.status = "Running"]

\* the instruction main is at
CurOp(st) == st.code[st.pc]

\* build_in_bounds_gep: the result is poison when it is not an address of
\* the tape or the one past its end, or when the base is poison
in_bounds_gep(p, idx) ==
    [addr |-> p.addr + idx,
     poison |-> p.poison \/ p.addr + idx < 0 \/ p.addr + idx > TAPE_CELLS]

\* a load or a store through p is defined
Dereferenceable(p) == ~p.poison /\ p.addr >= 0 /\ p.addr < TAPE_CELLS

\* the bytes a load outside the tape can give
ForeignBytes == {0, 255}

\* build_load of a cell: every value the load can give
Loads(st, p) ==
    IF Dereferenceable(p) THEN {TapeGet(st.tape, p.addr)} ELSE ForeignBytes

\* build_store of a cell; a store outside the tape leaves the tape alone
Stored(st, p, v) ==
    IF Dereferenceable(p) THEN [st EXCEPT !.tape = TapeSet(@, p.addr, v)] ELSE st

\* the process is killed at an access outside the tape
Trap(st) == [st EXCEPT !.status = "Trapped"]

\* an access through p: the outcomes given when it is defined, and, when it
\* is undefined, those and the trap
Access(st, p, outcomes) ==
    IF Dereferenceable(p) THEN outcomes ELSE outcomes \cup {Trap(st)}

Fallthrough(st) == [st EXCEPT !.pc = @ + 1]

\* Instruction::Add
native_add(st, o) ==
    Access(st, st.ptr,
        {Fallthrough(Stored(st, st.ptr, Wrap8(value + o.amount))) : value \in Loads(st, st.ptr)})

\* Instruction::Move
native_gep(st, o) ==
    {Fallthrough([st EXCEPT !.ptr = in_bounds_gep(st.ptr, o.index)])}

\* getchar_interceptor: the byte read, or -1
getchar(st) == IF st.input = <<>> THEN -1 ELSE Head(st.input)

\* Instruction::Input
native_getchar(st, o) ==
    LET consumed == [st EXCEPT !.input = IF @ = <<>> THEN @ ELSE Tail(@)]
    IN  Access(consumed, st.ptr,
            {Fallthrough(Stored(consumed, st.ptr, Trunc8(getchar(st))))})

\* Instruction::Output, with putchar_interceptor
native_putchar(st, o) ==
    Access(st, st.ptr,
        {Fallthrough([st EXCEPT !.output = Append(@, AsU8(SExt32(value)))]) :
            value \in Loads(st, st.ptr)})

\* Instruction::Loop: the block loop_guard
native_loop_guard(st, o) ==
    Access(st, st.ptr,
        {IF value = 0 THEN [st EXCEPT !.pc = @ + o.loop_end] ELSE Fallthrough(st) :
            value \in Loads(st, st.ptr)})

\* Instruction::Loop: the branch that ends the block loop_body
native_br(st, o) == {[st EXCEPT !.pc = @ + o.loop_guard]}

\* Instruction::Clear
native_store0(st, o) ==
    Access(st, st.ptr, {Fallthrough(Stored(st, st.ptr, 0))})

\* Instruction::Mul: no test of the current cell
native_mul(st, o) ==
    LET target == in_bounds_gep(st.ptr, o.index)
        outcomes ==
            {Fallthrough(Stored(st, target, Wrap8(Wrap8(ptr_value * o.amount) + target_value))) :
                ptr_value \in Loads(st, st.ptr), target_value \in Loads(st, target)}
    IN  IF Dereferenceable(st.ptr) /\ Dereferenceable(target)
        THEN outcomes
        ELSE outcomes \cup {Trap(st)}

\* finish: free(tape) and the return of main
native_ret(st, o) == {[st EXCEPT !.status = "Returned"]}

(***************************************************************************)
(* The components at rest: each specification runs one part of the crate  *)
(* and leaves the variables of the others as they are here.                *)
(***************************************************************************)
\* parse has been entered and has read nothing
ParserStart ==
    /\ index = 0
    /\ instructions = <<>>
    /\ stack = <<>>
    /\ parse_result = Pending

\* with_passes_str has not been called
CtorIdle ==
    /\ passes_str = STR_NONE
    /\ names = <<>>
    /\ passes = <<>>
    /\ optimizer = Pending

\* no interpreter has been built
InterpIdle == interp = NoInterpreter

\* Optimizer::run has not been called and its result is not run
OptIdle ==
    /\ optimized = Pending
    /\ interp_opt = NoInterpreter

\* nothing has been compiled
ProcIdle == proc = NoProcedure

NoArguments == [kind |-> "NoArguments"]

CallIdle == given = NoArguments /\ calls = <<>> /\ iterations = 0

NoSave == [kind |-> "NoSave"]

SaveIdle == save = NoSave

(***************************************************************************)
(* Optimizer::with_passes_str as a state machine: the arms of `match s`    *)
(* and the iterations of `for name in s.split(',')`.                       *)
(***************************************************************************)
STR_EMPTY == <<>>
STR_DEAD_CODE_UPPER == <<"D", "e", "a", "d", "-", "c", "o", "d", "e">>
STR_DEAD_CODE_SPACE == <<"d", "e", "a", "d", "-", "c", "o", "d", "e", " ">>

\* the fields pass lists are written with: the registered names and some
\* that are not registered
FieldChoices ==
    {STR_CLEAR_LOOPS, STR_MUL_LOOPS, STR_COLLAPSE_INCREMENTS, STR_DEAD_CODE,
     STR_NONE, STR_ALL, STR_EMPTY, STR_DEAD_CODE_UPPER, STR_DEAD_CODE_SPACE}

RECURSIVE join(_)
join(fields) ==
    IF Len(fields) = 1 THEN fields[1]
    ELSE fields[1] \o <<",">> \o join(Tail(fields))

PassStrings == {join(fs) : fs \in SeqsUpTo(FieldChoices, MaxFields) \ {<<>>}}

CtorInit ==
    /\ source = <<>>
    /\ ParserStart
    /\ InterpIdle
    /\ OptIdle
    /\ ProcIdle
    /\ CallIdle
    /\ SaveIdle
    /\ passes_str \in PassStrings
    /\ names = split(passes_str)
    /\ passes = <<>>
    /\ optimizer = Pending

\* "none" => {}
CtorNone ==
    /\ optimizer = Pending
    /\ passes_str = STR_NONE
    /\ optimizer' = Ok(Optimizer(passes))
    /\ UNCHANGED <<parser_vars, interp, passes_str, names, passes, optimized, interp_opt,
                   proc, call_vars>>

\* "all" => passes.extend(DEFAULT_OPTIMIZATION_PASSES)
CtorAll ==
    /\ optimizer = Pending
    /\ passes_str = STR_ALL
    /\ passes' = passes \o DEFAULT_OPTIMIZATION_PASSES
    /\ optimizer' = Ok(Optimizer(passes'))
    /\ UNCHANGED <<parser_vars, interp, passes_str, names, optimized, interp_opt, proc, call_vars>>

\* _ => one iteration of the for whose name is registered
CtorPush ==
    /\ optimizer = Pending
    /\ passes_str \notin {STR_NONE, STR_ALL}
    /\ names # <<>>
    /\ lookup_pass(Head(names)).kind = "Some"
    /\ passes' = Append(passes, lookup_pass(Head(names)).value)
    /\ names' = Tail(names)
    /\ UNCHANGED <<parser_vars, interp, passes_str, optimizer, optimized, interp_opt,
                   proc, call_vars>>

\* _ => one iteration of the for whose name is not registered
CtorUnknown ==
    /\ optimizer = Pending
    /\ passes_str \notin {STR_NONE, STR_ALL}
    /\ names # <<>>
    /\ lookup_pass(Head(names)).kind = "None"
    /\ optimizer' = Err(UnknownOptimizationPass(Head(names)))
    /\ passes' = <<>>
    /\ names' = <<>>
    /\ UNCHANGED <<parser_vars, interp, passes_str, optimized, interp_opt, proc, call_vars>>

\* _ => the for is exhausted
CtorDone ==
    /\ optimizer = Pending
    /\ passes_str \notin {STR_NONE, STR_ALL}
    /\ names = <<>>
    /\ optimizer' = Ok(Optimizer(passes))
    /\ UNCHANGED <<parser_vars, interp, passes_str, names, passes, optimized, interp_opt,
                   proc, call_vars>>

CtorNext == CtorNone \/ CtorAll \/ CtorPush \/ CtorUnknown \/ CtorDone

SpecCtor == CtorInit /\ [][CtorNext]_vars

(***************************************************************************)
(* The parser as a state machine: one action per arm of the match.         *)
(***************************************************************************)
ParserState == [instructions |-> instructions, stack |-> stack, result |-> parse_result]

SetParser(ps) ==
    /\ instructions' = ps.instructions
    /\ stack' = ps.stack
    /\ parse_result' = ps.result

ParserInit ==
    /\ source \in SeqsUpTo(SrcBytes, MaxSrcLen)
    /\ ParserStart
    /\ InterpIdle
    /\ CtorIdle
    /\ OptIdle
    /\ ProcIdle
    /\ CallIdle
    /\ SaveIdle

ParseToken ==
    /\ parse_result = Pending
    /\ index < Len(source)
    /\ source[index + 1] \in SimpleTokens
    /\ SetParser(parse_byte(ParserState, index, source[index + 1]))
    /\ index' = index + 1
    /\ UNCHANGED <<source, interp, ctor_vars, optimized, interp_opt, proc, call_vars>>

ParseOpen ==
    /\ parse_result = Pending
    /\ index < Len(source)
    /\ source[index + 1] = BYTE_OPEN
    /\ SetParser(parse_byte(ParserState, index, source[index + 1]))
    /\ index' = index + 1
    /\ UNCHANGED <<source, interp, ctor_vars, optimized, interp_opt, proc, call_vars>>

ParseClose ==
    /\ parse_result = Pending
    /\ index < Len(source)
    /\ source[index + 1] = BYTE_CLOSE
    /\ SetParser(parse_byte(ParserState, index, source[index + 1]))
    /\ index' = index + 1
    /\ UNCHANGED <<source, interp, ctor_vars, optimized, interp_opt, proc, call_vars>>

ParseOther ==
    /\ parse_result = Pending
    /\ index < Len(source)
    /\ source[index + 1] \notin Tokens
    /\ SetParser(parse_byte(ParserState, index, source[index + 1]))
    /\ index' = index + 1
    /\ UNCHANGED <<source, interp, ctor_vars, optimized, interp_opt, proc, call_vars>>

ParseEof ==
    /\ parse_result = Pending
    /\ index = Len(source)
    /\ SetParser(parse_eof(ParserState))
    /\ UNCHANGED <<source, index, interp, ctor_vars, optimized, interp_opt, proc, call_vars>>

ParserNext == ParseToken \/ ParseOpen \/ ParseClose \/ ParseOther \/ ParseEof

SpecParse == ParserInit /\ [][ParserNext]_vars

(***************************************************************************)
(* The interpreter as a state machine: one action per arm of the match of  *)
(* run, and one for the return of a run.                                   *)
(***************************************************************************)
P0 == PositionFrom(0)

\* the instructions that are no Loop, as the interpreter is given them
Leaves ==
    {Add(1, P0), Add(U8_MAX, P0), Move(1, P0), Move(-1, P0), Input(P0), Output(P0),
     Clear(P0), Mul(1, 2, P0), Mul(-1, 3, P0)}

\* the instruction sequences of exactly n instructions, bodies counted
RECURSIVE ProgramsOfSize(_)
ProgramsOfSize(n) ==
    IF n = 0 THEN {<<>>}
    ELSE {<<l>> \o rest : l \in Leaves, rest \in ProgramsOfSize(n - 1)}
         \cup UNION {{<<Loop(b, P0)>> \o rest :
                        b \in ProgramsOfSize(k), rest \in ProgramsOfSize(n - 1 - k)} :
                     k \in 0..(n - 1)}

Programs == UNION {ProgramsOfSize(n) : n \in 0..MaxProgSize}

InputBytes == {65}
Inputs == {None} \cup {Some(s) : s \in SeqsUpTo(InputBytes, MaxInputLen)}
Outputs == {None, Some(<<>>)}

InterpInit ==
    /\ source = <<>>
    /\ ParserStart
    /\ CtorIdle
    /\ OptIdle
    /\ ProcIdle
    /\ CallIdle
    /\ SaveIdle
    /\ \E tape_size \in 1..MaxTapeSize, input \in Inputs, output \in Outputs,
          instrs \in Programs :
          interp = build_and_run(tape_size, input, output, instrs)

Executing(o) ==
    /\ interp.status = "Running"
    /\ ~AtEnd(interp)
    /\ CurInst(interp).op = o

ExecMove ==
    /\ Executing("Move")
    /\ interp' = exec_move(interp, CurInst(interp))
    /\ UNCHANGED <<parser_vars, ctor_vars, optimized, interp_opt, proc, call_vars>>

ExecAdd ==
    /\ Executing("Add")
    /\ interp' = exec_add(interp, CurInst(interp))
    /\ UNCHANGED <<parser_vars, ctor_vars, optimized, interp_opt, proc, call_vars>>

ExecInput ==
    /\ Executing("Input")
    /\ interp' = exec_input(interp, CurInst(interp))
    /\ UNCHANGED <<parser_vars, ctor_vars, optimized, interp_opt, proc, call_vars>>

\* the output stream takes at most MaxOutputLen bytes
ExecOutput ==
    /\ Executing("Output")
    /\ interp.output.kind = "Some" => Len(interp.output.value) < MaxOutputLen
    /\ interp' = exec_output(interp, CurInst(interp))
    /\ UNCHANGED <<parser_vars, ctor_vars, optimized, interp_opt, proc, call_vars>>

ExecLoop ==
    /\ Executing("Loop")
    /\ interp' = exec_loop(interp, CurInst(interp))
    /\ UNCHANGED <<parser_vars, ctor_vars, optimized, interp_opt, proc, call_vars>>

ExecClear ==
    /\ Executing("Clear")
    /\ interp' = exec_clear(interp, CurInst(interp))
    /\ UNCHANGED <<parser_vars, ctor_vars, optimized, interp_opt, proc, call_vars>>

ExecMul ==
    /\ Executing("Mul")
    /\ interp' = exec_mul(interp, CurInst(interp))
    /\ UNCHANGED <<parser_vars, ctor_vars, optimized, interp_opt, proc, call_vars>>

RunReturn ==
    /\ interp.status = "Running"
    /\ AtEnd(interp)
    /\ interp' = run_return(interp)
    /\ UNCHANGED <<parser_vars, ctor_vars, optimized, interp_opt, proc, call_vars>>

InterpNext ==
    \/ ExecMove \/ ExecAdd \/ ExecInput \/ ExecOutput
    \/ ExecLoop \/ ExecClear \/ ExecMul \/ RunReturn

SpecInterp == InterpInit /\ [][InterpNext]_vars

(***************************************************************************)
(* The pipeline of tests/example_programs.rs and main.rs: parse, then      *)
(* Optimizer::with_passes_str("all"), then Optimizer::run, then an         *)
(* interpreter.  One interpreter runs the parsed instructions and, when    *)
(* its run is over, a second one with the same tape size and input runs    *)
(* the optimized instructions.                                             *)
(***************************************************************************)
\* the token sequences of exactly n bytes whose brackets balance
RECURSIVE BalancedOfLen(_)
BalancedOfLen(n) ==
    IF n = 0 THEN {<<>>}
    ELSE {<<b>> \o rest : b \in SimpleTokens, rest \in BalancedOfLen(n - 1)}
         \cup UNION {{<<BYTE_OPEN>> \o body \o <<BYTE_CLOSE>> \o rest :
                        body \in BalancedOfLen(k), rest \in BalancedOfLen(n - 2 - k)} :
                     k \in 0..(n - 2)}

LoopBodies == UNION {BalancedOfLen(n) : n \in 0..MaxBodyLen}
Tails == SeqsUpTo({BYTE_LT, BYTE_DOT}, MaxTailLen)

\* the sources: the short programs, and the programs that enter a loop
\* with a non-zero cell and go on after it
OptSources ==
    LoopBodies
    \cup {<<BYTE_PLUS, BYTE_OPEN>> \o body \o <<BYTE_CLOSE>> \o tail :
            body \in LoopBodies, tail \in Tails}

OptInit ==
    /\ source \in OptSources
    /\ ParserStart
    /\ InterpIdle
    /\ passes_str = STR_ALL
    /\ names = <<>>
    /\ passes = <<>>
    /\ optimizer = Pending
    /\ OptIdle
    /\ ProcIdle
    /\ CallIdle
    /\ SaveIdle

\* parse(Cursor::new(program))
OptParse ==
    /\ parse_result = Pending
    /\ parse_result' = parse(source)
    /\ UNCHANGED <<source, index, instructions, stack, interp, ctor_vars,
                   optimized, interp_opt, proc, call_vars>>

\* Optimizer::with_passes_str("all")
OptConstruct ==
    /\ parse_result.kind = "Ok"
    /\ optimizer = Pending
    /\ optimizer' = with_passes_str(passes_str)
    /\ UNCHANGED <<parser_vars, interp, passes_str, names, passes,
                   optimized, interp_opt, proc, call_vars>>

\* .run(instructions)
OptRun ==
    /\ optimizer.kind = "Ok"
    /\ optimized = Pending
    /\ \E result \in optimizer_run(optimizer.value, parse_result.value) :
          optimized' = Ok(result)
    /\ UNCHANGED <<parser_vars, interp, ctor_vars, interp_opt, proc, call_vars>>

\* Interpreter::builder().input(..).output(..).build() and the call of run,
\* for the parsed and for the optimized instructions
OptBuild ==
    /\ optimized.kind = "Ok"
    /\ interp = NoInterpreter
    /\ \E tape_size \in 1..MaxTapeSize, input \in Inputs :
          /\ interp' = build_and_run(tape_size, input, Some(<<>>), parse_result.value)
          /\ interp_opt' = build_and_run(tape_size, input, Some(<<>>), optimized.value)
    /\ UNCHANGED <<parser_vars, ctor_vars, optimized, proc, call_vars>>

\* the output stream takes at most MaxOutputLen bytes
OutputFull(st) ==
    /\ ~AtEnd(st)
    /\ CurInst(st).op = "Output"
    /\ Len(st.output.value) >= MaxOutputLen

\* one step of the run of the parsed instructions
PlainStep ==
    /\ interp.status = "Running"
    /\ ~OutputFull(interp)
    /\ interp' = run_step(interp)
    /\ UNCHANGED <<parser_vars, ctor_vars, optimized, interp_opt, proc, call_vars>>

\* one step of the run of the optimized instructions
OptStep ==
    /\ interp.status \notin {"None", "Running"}
    /\ interp_opt.status = "Running"
    /\ ~OutputFull(interp_opt)
    /\ interp_opt' = run_step(interp_opt)
    /\ UNCHANGED <<parser_vars, interp, ctor_vars, optimized, proc, call_vars>>

OptNext == OptParse \/ OptConstruct \/ OptRun \/ OptBuild \/ PlainStep \/ OptStep

SpecOptimize == OptInit /\ [][OptNext]_vars

(***************************************************************************)
(* The interpreter and the compiled procedure on the same instructions and *)
(* the same input, as run_exec of main.rs gives them to either.  The       *)
(* interpreter has the default tape; main is called when the run of the    *)
(* interpreter has ended without an error.                                 *)
(***************************************************************************)
CompileInit ==
    /\ source = <<>>
    /\ ParserStart
    /\ CtorIdle
    /\ interp_opt = NoInterpreter
    /\ \E instrs \in Programs, input \in SeqsUpTo(InputBytes, MaxInputLen) :
          /\ optimized = Ok(instrs)
          /\ interp = build_and_run(DEFAULT_TAPE_SIZE, Some(input), Some(<<>>), instrs)
          /\ proc = CompiledProgram(instrs, input)
    /\ CallIdle
    /\ SaveIdle

\* program.run(), once the interpreter has returned Ok(())
JitRun ==
    /\ interp.status = "Ok"
    /\ proc.status = "Compiled"
    /\ proc' = jit_run(proc)
    /\ UNCHANGED <<parser_vars, interp, ctor_vars, optimized, interp_opt, call_vars>>

Native(o) ==
    /\ proc.status = "Running"
    /\ CurOp(proc).op = o

NativeAdd ==
    /\ Native("add")
    /\ proc' \in native_add(proc, CurOp(proc))
    /\ UNCHANGED <<parser_vars, interp, ctor_vars, optimized, interp_opt, call_vars>>

NativeGep ==
    /\ Native("gep")
    /\ proc' \in native_gep(proc, CurOp(proc))
    /\ UNCHANGED <<parser_vars, interp, ctor_vars, optimized, interp_opt, call_vars>>

NativeGetchar ==
    /\ Native("getchar")
    /\ proc' \in native_getchar(proc, CurOp(proc))
    /\ UNCHANGED <<parser_vars, interp, ctor_vars, optimized, interp_opt, call_vars>>

\* the output stream takes at most MaxOutputLen bytes
NativePutchar ==
    /\ Native("putchar")
    /\ Len(proc.output) < MaxOutputLen
    /\ proc' \in native_putchar(proc, CurOp(proc))
    /\ UNCHANGED <<parser_vars, interp, ctor_vars, optimized, interp_opt, call_vars>>

NativeLoopGuard ==
    /\ Native("loop_guard")
    /\ proc' \in native_loop_guard(proc, CurOp(proc))
    /\ UNCHANGED <<parser_vars, interp, ctor_vars, optimized, interp_opt, call_vars>>

NativeBr ==
    /\ Native("br")
    /\ proc' \in native_br(proc, CurOp(proc))
    /\ UNCHANGED <<parser_vars, interp, ctor_vars, optimized, interp_opt, call_vars>>

NativeStore0 ==
    /\ Native("store0")
    /\ proc' \in native_store0(proc, CurOp(proc))
    /\ UNCHANGED <<parser_vars, interp, ctor_vars, optimized, interp_opt, call_vars>>

NativeMul ==
    /\ Native("mul")
    /\ proc' \in native_mul(proc, CurOp(proc))
    /\ UNCHANGED <<parser_vars, interp, ctor_vars, optimized, interp_opt, call_vars>>

NativeRet ==
    /\ Native("ret")
    /\ proc' \in native_ret(proc, CurOp(proc))
    /\ UNCHANGED <<parser_vars, interp, ctor_vars, optimized, interp_opt, call_vars>>

CompileNext ==
    \/ InterpNext
    \/ JitRun \/ NativeAdd \/ NativeGep \/ NativeGetchar \/ NativePutchar
    \/ NativeLoopGuard \/ NativeBr \/ NativeStore0 \/ NativeMul \/ NativeRet

SpecCompile == CompileInit /\ [][CompileNext]_vars

(***************************************************************************)
(* The passes, the recognizer and Optimizer::run, called on given          *)
(* instructions.                                                           *)
(***************************************************************************)
MaxNest == 10
MaxNestedBody == 10

\* the source of d nested pairs that cancel, '+' '-' around '>' '<'
\* around '+' '-' ..., the innermost pair being '>' '<'
RECURSIVE CancelNest(_)
CancelNest(d) ==
    IF d = 0 THEN <<>>
    ELSE IF d % 2 = 0
    THEN <<BYTE_PLUS>> \o CancelNest(d - 1) \o <<BYTE_MINUS>>
    ELSE <<BYTE_GT>> \o CancelNest(d - 1) \o <<BYTE_LT>>

\* the loop bodies of test_recognize_mul_loop, and ">+<->+<"
TestBodies ==
    LET p == BYTE_PLUS
        m == BYTE_MINUS
        r == BYTE_GT
        l == BYTE_LT
    IN  {<<m>>, <<m, r, p, l>>, <<m, r, p, p, l>>, <<m, r, p, r, p, l, l>>,
         <<m, r, p, p, r, p, p, p, l, l>>, <<m, l, p, r>>, <<m, l, p, r, r, p, l>>,
         <<m, r, r, p, p, l, p, p, p, p, r, p, r, p, p, l, l, l, l, m, m, r>>,
         <<>>, <<p>>, <<m, m>>, <<m, r>>, <<m, l>>, <<m, r, p, l, p>>,
         <<r, p, l, m, r, p, l>>}

\* the sources parsed for the calls: the bodies, the loops made of them at
\* depth one and two, and the nests
PassSources ==
    TestBodies
    \cup {<<BYTE_OPEN>> \o b \o <<BYTE_CLOSE>> : b \in TestBodies}
    \cup {<<BYTE_OPEN>> \o b \o <<BYTE_CLOSE, BYTE_DOT>> : b \in TestBodies}
    \cup {<<BYTE_PLUS, BYTE_OPEN, BYTE_DOT, BYTE_OPEN>> \o b
            \o <<BYTE_CLOSE, BYTE_CLOSE>> :
          b \in {t \in TestBodies : Len(t) <= MaxNestedBody}}
    \cup {CancelNest(d) : d \in 0..MaxNest}
    \cup {<<BYTE_OPEN, BYTE_PLUS, BYTE_PLUS, BYTE_PLUS, BYTE_CLOSE>>,
          <<BYTE_COMMA, BYTE_OPEN, BYTE_DOT, BYTE_CLOSE,
            BYTE_OPEN, BYTE_MINUS, BYTE_CLOSE, BYTE_DOT>>,
          <<BYTE_COMMA, BYTE_OPEN, BYTE_MINUS, BYTE_CLOSE, BYTE_GT, BYTE_OPEN,
            BYTE_MINUS, BYTE_GT, BYTE_PLUS, BYTE_LT, BYTE_CLOSE>>}

\* the source text as parse gives it to the recognizer in the tests
Body(src) == parse(src).value

\* programs with an Add{0} or a Move{0} at depth 0, 1 and 2, as
\* collapse-increments can leave them
NullPrograms ==
    UNION {{<<n>>,
            <<Output(P0), n, Loop(<<Output(P0), n>>, P0)>>,
            <<Output(P0), Loop(<<Output(P0), n, Loop(<<Output(P0), n, Input(P0)>>, P0), n>>,
                               P0), n>>} :
           n \in {Add(0, P0), Move(0, P0)}}

\* the instructions the calls are made on
PassInputs == Programs \cup {Body(src) : src \in PassSources} \cup NullPrograms

Arguments(instrs) == [kind |-> "Arguments", instructions |-> instrs]

\* a call that has returned
Call(fn, arg, ret) == [fn |-> fn, arg |-> arg, ret |-> ret]

PassInit ==
    /\ source = <<>>
    /\ ParserStart
    /\ CtorIdle
    /\ InterpIdle
    /\ OptIdle
    /\ ProcIdle
    /\ SaveIdle
    /\ given \in {Arguments(instrs) : instrs \in PassInputs}
    /\ calls = <<>>
    /\ iterations = 0

\* the set of the values a call of fn on arg can return
returns(fn, arg) ==
    CASE fn = "recognize_mul_loop" -> {recognize_mul_loop(arg)}
      [] fn = "Optimizer::run" -> optimizer_run(with_passes_str(STR_ALL).value, arg)
      [] OTHER -> pass_run(fn, arg)

\* CollapseIncrements.run(instructions), the first call
CallCollapseIncrements ==
    /\ calls = <<>>
    /\ \E ret \in returns("CollapseIncrements", given.instructions) :
          calls' = <<Call("CollapseIncrements", given.instructions, ret)>>
    /\ UNCHANGED <<parser_vars, interp, ctor_vars, optimized, interp_opt, proc,
                   given, iterations, save>>

\* DeadCode.run(instructions), the first call
CallDeadCode ==
    /\ calls = <<>>
    /\ \E ret \in returns("DeadCode", given.instructions) :
          calls' = <<Call("DeadCode", given.instructions, ret)>>
    /\ UNCHANGED <<parser_vars, interp, ctor_vars, optimized, interp_opt, proc,
                   given, iterations, save>>

\* ClearLoops.run(instructions), the first call
CallClearLoops ==
    /\ calls = <<>>
    /\ \E ret \in returns("ClearLoops", given.instructions) :
          calls' = <<Call("ClearLoops", given.instructions, ret)>>
    /\ UNCHANGED <<parser_vars, interp, ctor_vars, optimized, interp_opt, proc,
                   given, iterations, save>>

\* MulLoops.run(instructions), the first call
CallMulLoops ==
    /\ calls = <<>>
    /\ \E ret \in returns("MulLoops", given.instructions) :
          calls' = <<Call("MulLoops", given.instructions, ret)>>
    /\ UNCHANGED <<parser_vars, interp, ctor_vars, optimized, interp_opt, proc,
                   given, iterations, save>>

\* recognize_mul_loop(&instructions), the first call
CallRecognize ==
    /\ calls = <<>>
    /\ \E ret \in returns("recognize_mul_loop", given.instructions) :
          calls' = <<Call("recognize_mul_loop", given.instructions, ret)>>
    /\ UNCHANGED <<parser_vars, interp, ctor_vars, optimized, interp_opt, proc,
                   given, iterations, save>>

\* Optimizer::with_passes_str("all").run(instructions), the first call
CallOptimizerRun ==
    /\ calls = <<>>
    /\ \E ret \in returns("Optimizer::run", given.instructions) :
          calls' = <<Call("Optimizer::run", given.instructions, ret)>>
    /\ UNCHANGED <<parser_vars, interp, ctor_vars, optimized, interp_opt, proc,
                   given, iterations, save>>

\* the same call made a second time, on the same instructions
CallAgain ==
    /\ Len(calls) = 1
    /\ \E ret \in returns(calls[1].fn, calls[1].arg) :
          calls' = Append(calls, Call(calls[1].fn, calls[1].arg, ret))
    /\ UNCHANGED <<parser_vars, interp, ctor_vars, optimized, interp_opt, proc,
                   given, iterations, save>>

\* Optimizer::run called on what Optimizer::run returned
CallOptimizerRunOnResult ==
    /\ Len(calls) = 1
    /\ calls[1].fn = "Optimizer::run"
    /\ \E ret \in returns("Optimizer::run", calls[1].ret) :
          calls' = Append(calls, Call("Optimizer::run", calls[1].ret, ret))
    /\ UNCHANGED <<parser_vars, interp, ctor_vars, optimized, interp_opt, proc,
                   given, iterations, save>>

\* MulLoops.run called on what ClearLoops.run returned
CallMulLoopsOnResult ==
    /\ Len(calls) = 1
    /\ calls[1].fn = "ClearLoops"
    /\ \E ret \in returns("MulLoops", calls[1].ret) :
          calls' = Append(calls, Call("MulLoops", calls[1].ret, ret))
    /\ UNCHANGED <<parser_vars, interp, ctor_vars, optimized, interp_opt, proc,
                   given, iterations, save>>

PassNext ==
    \/ CallCollapseIncrements \/ CallDeadCode \/ CallClearLoops \/ CallMulLoops
    \/ CallRecognize \/ CallOptimizerRun \/ CallAgain \/ CallOptimizerRunOnResult
    \/ CallMulLoopsOnResult

SpecPass == PassInit /\ [][PassNext]_vars

(***************************************************************************)
(* Optimizer::run as a state machine: one step per `pass.run(accum)`, one  *)
(* per turn of `for _ in 0..10`, and the return.  `calls` is the history   *)
(* of the pass calls made so far, `iterations` the rounds completed.       *)
(***************************************************************************)
MaxPasses == 2

\* the pass lists an Optimizer is constructed with
PassLists ==
    UNION {[1..n -> {ALL_OPTIMIZATIONS[s] : s \in DOMAIN ALL_OPTIMIZATIONS}] :
              n \in 0..MaxPasses}

\* the parsed programs Optimizer::run is given
RunInputs == {Body(src) : src \in PassSources}

\* `accum`
accum == IF calls = <<>> THEN given.instructions ELSE calls[Len(calls)].ret

\* how far `for pass in &self.passes` has come in the current round
passes_done == Len(calls) - iterations * Len(optimizer.value.passes)

RunInit ==
    /\ source = <<>>
    /\ ParserStart
    /\ InterpIdle
    /\ OptIdle
    /\ ProcIdle
    /\ SaveIdle
    /\ passes_str = STR_NONE
    /\ names = <<>>
    /\ passes = <<>>
    /\ optimizer \in {Ok(Optimizer(ps)) : ps \in PassLists}
    /\ given \in {Arguments(instrs) : instrs \in RunInputs}
    /\ calls = <<>>
    /\ iterations = 0

\* mutant of RunPass: the list is walked from its last pass to its first
RunPass_backwards ==
    /\ optimized = Pending
    /\ iterations < ROUNDS
    /\ passes_done < Len(optimizer.value.passes)
    /\ LET pass == optimizer.value.passes[Len(optimizer.value.passes) - passes_done]
       IN  \E ret \in pass_run(pass, accum) :
              calls' = Append(calls, Call(pass, accum, ret))
    /\ UNCHANGED <<parser_vars, interp, ctor_vars, optimized, interp_opt, proc,
                   given, iterations, save>>

\* `accum = pass.run(accum)` for the next pass of the list
RunPass ==
    /\ optimized = Pending
    /\ iterations < ROUNDS
    /\ passes_done < Len(optimizer.value.passes)
    /\ LET pass == optimizer.value.passes[passes_done + 1]
       IN  \E ret \in pass_run(pass, accum) :
              calls' = Append(calls, Call(pass, accum, ret))
    /\ UNCHANGED <<parser_vars, interp, ctor_vars, optimized, interp_opt, proc,
                   given, iterations, save>>

\* the inner loop is through the list: the next turn of `for _ in 0..10`
RunRound ==
    /\ optimized = Pending
    /\ iterations < ROUNDS
    /\ passes_done = Len(optimizer.value.passes)
    /\ iterations' = iterations + 1
    /\ UNCHANGED <<parser_vars, interp, ctor_vars, optimized, interp_opt, proc,
                   given, calls, save>>

\* the trailing `accum`
OptimizerReturn ==
    /\ optimized = Pending
    /\ iterations = ROUNDS
    /\ optimized' = Ok(accum)
    /\ UNCHANGED <<parser_vars, interp, ctor_vars, interp_opt, proc, call_vars>>

RunNext ==
    \/ RunPass
    \/ RunRound
    \/ OptimizerReturn

SpecRun == RunInit /\ [][RunNext]_vars

(***************************************************************************)
(* compiler.rs: CompiledProgram::save_object and save_executable.          *)
(***************************************************************************)
\* BrainfuckError::Message and BrainfuckError::IoError
Message(m) == [kind |-> "Message", message |-> m]
IoError == [kind |-> "IoError"]

\* the outcome of a panic!
Panic(m) == [kind |-> "Panic", message |-> m]

CUSTOM_IO_MESSAGE == "Cannot save compiled program to disk when using custom I/O."

InputTarget == {"Stdio", "Custom"}
OutputTarget == {"Stdio", "Custom"}
OptimizationLevel == {"None", "Less", "Default", "Aggressive"}

\* a CompiledProgram on which fn has been called: the functions entered,
\* the position in the innermost, the files created so far
SaveCalled(fn, input, output, level) ==
    [kind |-> "Save", io |-> [input |-> input, output |-> output],
     optimization_level |-> level, frames |-> <<fn>>, pc |-> "check_input",
     created |-> {}, result |-> Pending]

\* the panic unwinds every frame
Panicked(s, m) == [s EXCEPT !.pc = "done", !.result = Panic(m)]

\* the innermost function returns r: save_executable goes on to clang
\* after Ok(()) of save_object and returns its Err at the `?`
Returned(s, r) ==
    IF Len(s.frames) > 1 /\ r.kind = "Ok"
    THEN [s EXCEPT !.frames = Front(@), !.pc = "clang"]
    ELSE [s EXCEPT !.frames = <<Head(@)>>, !.pc = "done", !.result = r]

\* `if let InputTarget::Custom(_) = &self.io.input { panic!(..) }`
save_check_input(s) ==
    IF s.io.input = "Custom" THEN {Panicked(s, CUSTOM_IO_MESSAGE)}
    ELSE {[s EXCEPT !.pc = "check_output"]}

\* the check of the output left out
save_check_output_skipped(s) ==
    {[s EXCEPT !.pc = IF Last(s.frames) = "save_object"
                      THEN "target_machine" ELSE "tempfile"]}

\* `if let OutputTarget::Custom(_) = &self.io.output { panic!(..) }`
save_check_output(s) ==
    IF s.io.output = "Custom" THEN {Panicked(s, CUSTOM_IO_MESSAGE)}
    ELSE {[s EXCEPT !.pc = IF Last(s.frames) = "save_object"
                           THEN "target_machine" ELSE "tempfile"]}

\* Target::from_triple and create_target_machine, each of which can fail
save_target_machine(s) ==
    {Returned(s, Err(Message("Cannot create Target"))),
     Returned(s, Err(Message("Cannot create TargetMachine"))),
     [s EXCEPT !.pc = "write_to_file"]}

\* target_machine.write_to_file(&self.module, FileType::Object, path)
save_write_to_file(s) ==
    {Returned(s, Err(Message("Failed to write object file"))),
     Returned([s EXCEPT !.created = @ \cup {"object"}], Ok(<<>>))}

\* `let file = NamedTempFile::new()?; self.save_object(file.path())?`: the
\* temporary file is created and save_object entered
save_tempfile(s) ==
    {Returned(s, Err(IoError)),
     [s EXCEPT !.created = @ \cup {"temporary"},
               !.frames = Append(@, "save_object"),
               !.pc = "check_input"]}

\* Command::new("clang") ... .status().expect(..) and the test of the status
save_clang(s) ==
    {Panicked(s, "Failed to execute process"),
     Returned(s, Err(Message("Cannot link using clang."))),
     Returned([s EXCEPT !.created = @ \cup {"executable"}], Ok(<<>>))}

SaveInit ==
    /\ source = <<>>
    /\ ParserStart
    /\ CtorIdle
    /\ InterpIdle
    /\ OptIdle
    /\ ProcIdle
    /\ CallIdle
    /\ \E fn \in {"save_object", "save_executable"}, input \in InputTarget,
          output \in OutputTarget, level \in OptimizationLevel :
          save = SaveCalled(fn, input, output, level)

SaveCheckInput ==
    /\ save.pc = "check_input"
    /\ save' \in save_check_input(save)
    /\ UNCHANGED <<parser_vars, interp, ctor_vars, optimized, interp_opt, proc,
                   given, calls, iterations>>

SaveCheckOutput ==
    /\ save.pc = "check_output"
    /\ save' \in save_check_output(save)
    /\ UNCHANGED <<parser_vars, interp, ctor_vars, optimized, interp_opt, proc,
                   given, calls, iterations>>

SaveTargetMachine ==
    /\ save.pc = "target_machine"
    /\ save' \in save_target_machine(save)
    /\ UNCHANGED <<parser_vars, interp, ctor_vars, optimized, interp_opt, proc,
                   given, calls, iterations>>

SaveWriteToFile ==
    /\ save.pc = "write_to_file"
    /\ save' \in save_write_to_file(save)
    /\ UNCHANGED <<parser_vars, interp, ctor_vars, optimized, interp_opt, proc,
                   given, calls, iterations>>

SaveTempFile ==
    /\ save.pc = "tempfile"
    /\ save' \in save_tempfile(save)
    /\ UNCHANGED <<parser_vars, interp, ctor_vars, optimized, interp_opt, proc,
                   given, calls, iterations>>

SaveClang ==
    /\ save.pc = "clang"
    /\ save' \in save_clang(save)
    /\ UNCHANGED <<parser_vars, interp, ctor_vars, optimized, interp_opt, proc,
                   given, calls, iterations>>

SaveNext ==
    \/ SaveCheckInput \/ SaveCheckOutput \/ SaveTargetMachine \/ SaveWriteToFile
    \/ SaveTempFile \/ SaveClang

SpecSave == SaveInit /\ [][SaveNext]_vars

(***************************************************************************)
(* A Loop whose body the recognizer accepts, run by the interpreter from   *)
(* any state, and then what mul-loops puts in its place, from the same     *)
(* state.                                                                  *)
(***************************************************************************)
MaxMulTape == 3

\* the values of the current cell and of the other cells at the start
CounterValues == {0, 1, 2, 255}
OtherValues == {0, 200}

\* the bodies the recognizer accepts among the test bodies, as parsed and
\* as collapse-increments leaves them
RecognizedBodies ==
    {b \in {Body(src) : src \in TestBodies}
            \cup {collapse_increments(Body(src)) : src \in TestBodies} :
        recognize_mul_loop(b).kind = "Some"}

\* the tapes of n cells with the pointer at p
StartTapes(n, p) ==
    {t \in [0..(n - 1) -> CounterValues \cup OtherValues] :
        /\ t[p] \in CounterValues
        /\ \A i \in 0..(n - 1) : i # p => t[i] \in OtherValues}

\* the tape function t as the interpreter holds it
RECURSIVE TapeOf(_, _)
TapeOf(t, n) ==
    IF n = 0 THEN EmptyTape
    ELSE TapeSet(TapeOf(t, n - 1), n - 1, t[n - 1])

\* an interpreter with the given tape and pointer, about to run instrs
Started(tape_len, tape, p, instrs) ==
    [build_and_run(tape_len, None, None, instrs)
        EXCEPT !.tape = tape, !.tape_position = p]

LoopState(body, tape_len, tape, p) ==
    [kind |-> "LoopState", instructions |-> body, tape_len |-> tape_len,
     tape |-> tape, tape_position |-> p]

MulLoopInit ==
    /\ source = <<>>
    /\ ParserStart
    /\ CtorIdle
    /\ ProcIdle
    /\ SaveIdle
    /\ calls = <<>>
    /\ iterations = 0
    /\ \E body \in RecognizedBodies, n \in 1..MaxMulTape :
          \E p \in 0..(n - 1) :
             \E t \in StartTapes(n, p) :
                \E replacement \in mul_loops(<<Loop(body, P0)>>) :
                   /\ given = LoopState(body, n, TapeOf(t, n), p)
                   /\ interp = Started(n, TapeOf(t, n), p, <<Loop(body, P0)>>)
                   /\ optimized = Ok(replacement)
                   /\ interp_opt = Started(n, TapeOf(t, n), p, replacement)

\* `while self.tape[self.tape_position] != 0 { self.run(body)? }`: the
\* test, and the entry of run(body) when the cell is not zero
LoopTest ==
    /\ interp.status = "Running"
    /\ Len(interp.frames) = 1
    /\ ~AtEnd(interp)
    /\ interp' = run_step(interp)
    /\ iterations' = iterations + (IF CurCell(interp) # 0 THEN 1 ELSE 0)
    /\ UNCHANGED <<parser_vars, ctor_vars, optimized, interp_opt, proc,
                   given, calls, save>>

\* one step of run(body), its return to the `while` included
LoopBody ==
    /\ interp.status = "Running"
    /\ Len(interp.frames) > 1
    /\ interp' = run_step(interp)
    /\ UNCHANGED <<parser_vars, ctor_vars, optimized, interp_opt, proc, call_vars>>

\* the run of the Loop returns
LoopExit ==
    /\ interp.status = "Running"
    /\ Len(interp.frames) = 1
    /\ AtEnd(interp)
    /\ interp' = run_step(interp)
    /\ UNCHANGED <<parser_vars, ctor_vars, optimized, interp_opt, proc, call_vars>>

MulLoopNext == LoopTest \/ LoopBody \/ LoopExit \/ OptStep

SpecMulLoop == MulLoopInit /\ [][MulLoopNext]_vars

\* the interpreter goes on for as long as run has not returned
SpecMulLoopFair ==
    /\ SpecMulLoop
    /\ WF_vars(LoopTest) /\ WF_vars(LoopBody) /\ WF_vars(LoopExit) /\ WF_vars(OptStep)

(***************************************************************************)
(* Properties of the parser.                                               *)
(***************************************************************************)
\* number of '[' minus number of ']' among the first n bytes
Depth(src, n) ==
    Cardinality({i \in 1..n : src[i] = BYTE_OPEN})
        - Cardinality({i \in 1..n : src[i] = BYTE_CLOSE})

Balanced(src) ==
    /\ \A n \in 0..Len(src) : Depth(src, n) >= 0
    /\ Depth(src, Len(src)) = 0

HasUnmatchedClose(src) == \E n \in 1..Len(src) : Depth(src, n) < 0

\* index of the first ']' that closes nothing
FirstUnmatchedClose(src) ==
    CHOOSE n \in 1..Len(src) :
        Depth(src, n) < 0 /\ \A k \in 0..(n - 1) : Depth(src, k) >= 0

\* indices of the '[' that no later ']' closes
StillOpen(src) ==
    {i \in 1..Len(src) :
        src[i] = BYTE_OPEN /\ \A j \in i..Len(src) : Depth(src, j) >= Depth(src, i)}

SetMin(S) == CHOOSE x \in S : \A y \in S : x <= y
SetMax(S) == CHOOSE x \in S : \A y \in S : x >= y

IsToken(b) == b \in Tokens
RemoveComments(src) == SelectSeq(src, IsToken)

\* C3: parse returns Ok exactly when the brackets of the input are balanced;
\* otherwise it returns a ParseError and no instruction sequence.
C3_OkIffBalanced ==
    parse_result # Pending =>
        /\ (parse_result.kind = "Ok") <=> Balanced(source)
        /\ ~Balanced(source) =>
              /\ parse_result.kind = "Err"
              /\ parse_result.error.kind = "ParseError"
              /\ DOMAIN parse_result = {"kind", "error"}
              /\ instructions = <<>>

C3_Witness ==
    /\ parse_result.kind = "Err"
    /\ \E i, j \in 1..Len(source) : i < j /\ source[i] = BYTE_OPEN /\ source[j] = BYTE_CLOSE

\* C4 as stated: an unmatched ']' is reported at its own offset, and an input
\* that ends with '[' still open is reported at the offset of the OUTERMOST
\* still-open '['.
C4_OutermostOpen ==
    parse_result.kind = "Err" =>
        IF HasUnmatchedClose(source)
        THEN parse_result.error.position = PositionFrom(FirstUnmatchedClose(source) - 1)
        ELSE parse_result.error.position = PositionFrom(SetMin(StillOpen(source)) - 1)

\* C4 amended: an unmatched ']' is reported at its own offset, and an input
\* that ends with '[' still open is reported at the offset of the INNERMOST
\* (last opened) still-open '['.
C4_InnermostOpen ==
    parse_result.kind = "Err" =>
        IF HasUnmatchedClose(source)
        THEN parse_result.error.position = PositionFrom(FirstUnmatchedClose(source) - 1)
        ELSE parse_result.error.position = PositionFrom(SetMax(StillOpen(source)) - 1)

C4_Witness ==
    /\ parse_result.kind = "Err"
    /\ ~HasUnmatchedClose(source)
    /\ Cardinality(StillOpen(source)) >= 2
    /\ \E j \in 1..Len(source) : source[j] = BYTE_CLOSE

\* the (byte, offset) token an instruction that is no Loop stands for, by the
\* table of tokens; byte 0 when it stands for none
TokenOf(i) ==
    LET b == CASE i.op = "Add" /\ i.amount = 1 -> BYTE_PLUS
               [] i.op = "Add" /\ i.amount = 255 -> BYTE_MINUS
               [] i.op = "Move" /\ i.offset = 1 -> BYTE_GT
               [] i.op = "Move" /\ i.offset = -1 -> BYTE_LT
               [] i.op = "Input" -> BYTE_COMMA
               [] i.op = "Output" -> BYTE_DOT
               [] OTHER -> 0
    IN  [byte |-> IF i.position.start = i.position.end THEN b ELSE 0,
         offset |-> i.position.start]

\* the tokens an instruction sequence stands for, in order
RECURSIVE Unparse(_)
Unparse(instrs) ==
    IF instrs = <<>> THEN <<>>
    ELSE LET i == Head(instrs)
         IN  (IF i.op = "Loop"
              THEN <<[byte |-> BYTE_OPEN, offset |-> i.position.start]>>
                     \o Unparse(i.body)
                     \o <<[byte |-> BYTE_CLOSE, offset |-> i.position.end]>>
              ELSE <<TokenOf(i)>>)
             \o Unparse(Tail(instrs))

IsTokenEntry(e) == e.byte \in Tokens

\* the tokens of a source with their byte offsets, in source order
TokenStream(src) ==
    SelectSeq([i \in 1..Len(src) |-> [byte |-> src[i], offset |-> i - 1]], IsTokenEntry)

\* C5: on a balanced input parse emits one instruction per token in source
\* order, with the amounts, offsets and Positions of the table, and one Loop
\* per bracket pair spanning from its '[' to its ']'.
C5_OneInstructionPerToken ==
    parse_result.kind = "Ok" =>
        Unparse(parse_result.value) = TokenStream(source)

C5_Witness ==
    /\ parse_result.kind = "Ok"
    /\ Len(parse_result.value) >= 2
    /\ \E k \in 1..Len(parse_result.value) :
          /\ parse_result.value[k].op = "Loop"
          /\ parse_result.value[k].body # <<>>

\* an instruction sequence without its Positions
RECURSIVE Payload(_)
Payload(instrs) ==
    [k \in 1..Len(instrs) |->
        LET i == instrs[k]
        IN  CASE i.op = "Add" -> [op |-> "Add", amount |-> i.amount]
              [] i.op = "Move" -> [op |-> "Move", offset |-> i.offset]
              [] i.op = "Loop" -> [op |-> "Loop", body |-> Payload(i.body)]
              [] i.op = "Mul" -> [op |-> "Mul", offset |-> i.offset, amount |-> i.amount]
              [] OTHER -> [op |-> i.op]]

\* C6: the parse of a balanced program with non-token bytes inserted equals
\* the parse of the program without them, Positions aside.
C6_CommentsIgnored ==
    (parse_result # Pending /\ Balanced(RemoveComments(source))) =>
        /\ parse_result.kind = "Ok"
        /\ parse(RemoveComments(source)).kind = "Ok"
        /\ Payload(parse_result.value) = Payload(parse(RemoveComments(source)).value)

C6_Witness ==
    /\ parse_result.kind = "Ok"
    /\ source # RemoveComments(source)
    /\ \E k \in 1..Len(parse_result.value) :
          /\ parse_result.value[k].op = "Loop"
          /\ parse_result.value[k].body # <<>>

(***************************************************************************)
(* Properties of the interpreter.                                          *)
(***************************************************************************)
InterpBuilt == interp.status # "None"

\* the step taken executes the instruction at the `for` of the innermost run
Executes(o) ==
    /\ InterpBuilt
    /\ interp.status = "Running"
    /\ ~AtEnd(interp)
    /\ CurInst(interp).op = o
    /\ interp' # interp

TapeInRange ==
    InterpBuilt =>
        /\ interp.tape_position \in 0..(interp.tape_len - 1)
        /\ DOMAIN interp.tape \subseteq 0..(interp.tape_len - 1)

MoveFaults ==
    Executes("Move") =>
        LET target == interp.tape_position + CurInst(interp).offset
        IN  /\ target < 0 =>
                /\ interp'.status = "TapeUnderflow"
                /\ interp'.tape_position = interp.tape_position
                /\ interp'.tape = interp.tape
            /\ target >= interp.tape_len =>
                /\ interp'.status = "TapeOverflow"
                /\ interp'.tape_position = interp.tape_position
                /\ interp'.tape = interp.tape

\* C7: the data pointer is always inside the tape; a Move below cell 0
\* returns TapeUnderflow and a Move to or past cell N returns TapeOverflow,
\* both leaving pointer and tape as they were.
C7_PointerInTape == []TapeInRange /\ [][MoveFaults]_vars

C7_Witness ==
    /\ InterpBuilt
    /\ interp.status \in {"TapeUnderflow", "TapeOverflow"}
    /\ CurInst(interp).op = "Move"
    /\ interp.tape # EmptyTape
    /\ interp.tape_position > 0

\* C8: a Mul executed on a zero cell changes neither tape nor pointer and
\* returns no error, whatever its offset.
C8_MulZeroGuard ==
    [][(Executes("Mul") /\ CurCell(interp) = 0) =>
          /\ interp'.tape = interp.tape
          /\ interp'.tape_position = interp.tape_position
          /\ interp'.status = "Running"
          /\ interp'.frames = Advance(interp).frames]_vars

\* a Mul whose target lies outside the tape has just been passed on a zero cell
C8_Witness ==
    /\ InterpBuilt
    /\ interp.status = "Running"
    /\ CurFrame(interp).pc > 1
    /\ LET prev == CurFrame(interp).code[CurFrame(interp).pc - 1]
       IN  /\ prev.op = "Mul"
           /\ CurCell(interp) = 0
           /\ interp.tape_position + prev.offset \notin 0..(interp.tape_len - 1)
    /\ interp.tape # EmptyTape

\* C9: Input on a configured input at end of file makes run return IoError
\* with tape and pointer unchanged, and nothing is executed after it; Input
\* with no input configured stores 0 and goes on.
C9_InputEof ==
    [][/\ (Executes("Input") /\ interp.input.kind = "Some" /\ interp.input.value = <<>>) =>
              /\ interp'.status = "IoError"
              /\ interp'.tape = interp.tape
              /\ interp'.tape_position = interp.tape_position
       /\ (Executes("Input") /\ interp.input = None) =>
              /\ interp'.status = "Running"
              /\ interp'.tape = TapeSet(interp.tape, interp.tape_position, 0)
              /\ interp'.tape_position = interp.tape_position
              /\ interp'.frames = Advance(interp).frames
       /\ (InterpBuilt /\ interp.status = "IoError") => interp' = interp]_vars

\* run has returned IoError from an Input inside a loop, on a non-zero cell,
\* with instructions left to execute
C9_Witness ==
    /\ InterpBuilt
    /\ interp.status = "IoError"
    /\ Len(interp.frames) >= 2
    /\ CurCell(interp) # 0

(***************************************************************************)
(* Properties of Optimizer::with_passes_str.                               *)
(***************************************************************************)
\* the indices of the commas of s, with 0 and Len(s) + 1 around them
Cuts(s) == {0, Len(s) + 1} \cup {i \in 1..Len(s) : s[i] = ","}

\* the k-th smallest element of a set of numbers
Kth(S, k) == CHOOSE x \in S : Cardinality({y \in S : y < x}) = k - 1

\* the comma-separated fields of s, in the written order
FieldsOf(s) ==
    [k \in 1..(Cardinality(Cuts(s)) - 1) |->
        SubSeq(s, Kth(Cuts(s), k) + 1, Kth(Cuts(s), k + 1) - 1)]

RegisteredNames ==
    {STR_COLLAPSE_INCREMENTS, STR_CLEAR_LOOPS, STR_MUL_LOOPS, STR_DEAD_CODE}

\* C10: "none" gives no pass, "all" gives dead-code, collapse-increments,
\* mul-loops in that order, any other s gives the passes its fields name, in
\* the written order; a field that is not exactly a registered name makes the
\* constructor return UnknownOptimizationPass with that field, and no Optimizer.
C10_PassList ==
    optimizer # Pending =>
        LET fields == FieldsOf(passes_str)
            bad == {k \in 1..Len(fields) : fields[k] \notin RegisteredNames}
        IN  CASE passes_str = STR_NONE -> optimizer = Ok(Optimizer(<<>>))
              [] passes_str = STR_ALL ->
                    /\ optimizer.kind = "Ok"
                    /\ [k \in 1..Len(optimizer.value.passes) |->
                            pass_name(optimizer.value.passes[k])]
                         = <<STR_DEAD_CODE, STR_COLLAPSE_INCREMENTS, STR_MUL_LOOPS>>
              [] OTHER ->
                    IF bad = {}
                    THEN /\ optimizer.kind = "Ok"
                         /\ [k \in 1..Len(optimizer.value.passes) |->
                                pass_name(optimizer.value.passes[k])] = fields
                    ELSE /\ optimizer = Err(UnknownOptimizationPass(fields[Kth(bad, 1)]))
                         /\ passes = <<>>

\* a list of two different registered names has been accepted
C10_Witness ==
    /\ optimizer.kind = "Ok"
    /\ Len(optimizer.value.passes) = 2
    /\ optimizer.value.passes[1] # optimizer.value.passes[2]

(***************************************************************************)
(* Properties of the optimizer.                                            *)
(***************************************************************************)
IsPrefix(s, t) == Len(s) <= Len(t) /\ SubSeq(t, 1, Len(s)) = s

TapeFault == {"TapeUnderflow", "TapeOverflow"}

\* C1: when the run of the parsed program is over without a tape fault, the
\* run of the program optimized with "all", on the same tape size and the
\* same input, writes no byte the first run did not write at that place,
\* and when it is over it has ended the same way, with the same bytes
\* written and the same bytes of the input left.
C1_AllPreservesBehaviour ==
    (interp.status \notin ({"None", "Running"} \cup TapeFault)
        /\ interp_opt.status # "None")
    => /\ IsPrefix(interp_opt.output.value, interp.output.value)
       /\ interp_opt.status # "Running"
            => /\ interp_opt.status = interp.status
               /\ interp_opt.output = interp.output
               /\ interp_opt.input = interp.input

(***************************************************************************)
(* Properties of the compiled procedure.                                   *)
(***************************************************************************)
\* C2: when the interpreter, on the default tape of 30000 cells, has
\* finished without error, the compiled procedure run on the same
\* instructions and input writes no byte the interpreter did not write at
\* that place, and when it is over it has written the same bytes.
C2_CompiledSameOutput ==
    (interp.status = "Ok" /\ proc.status \notin {"None", "Compiled"})
    => /\ IsPrefix(proc.output, interp.output.value)
       /\ proc.status # "Running" => proc.output = interp.output.value

(***************************************************************************)
(* Properties of Optimizer::run and of the passes.                         *)
(***************************************************************************)
\* C11: Optimizer::run with the passes of "all" is idempotent: called on
\* what it returned for well-formed instructions, it returns the same
\* instructions again, run(run(x)) = run(x).
C11_RunIdempotent ==
    \A k \in 1..Len(calls) :
        (calls[k].fn = "Optimizer::run" /\ k > 1 /\ calls[k].arg = calls[1].ret)
            => calls[k].ret = calls[k].arg

\* the calls of fn made so far
CallsOf(fn) == {k \in 1..Len(calls) : calls[k].fn = fn}

\* the pointer offset, relative to the loop entry, before instruction j of x
RECURSIVE OffsetAt(_, _)
OffsetAt(x, j) ==
    IF j <= 1 THEN 0
    ELSE OffsetAt(x, j - 1) + (IF x[j - 1].op = "Move" THEN x[j - 1].offset ELSE 0)

OnlyMoveAdd(x) == \A j \in 1..Len(x) : x[j].op \in {"Move", "Add"}

NetDisplacement(x) == OffsetAt(x, Len(x) + 1)

\* the instructions from index `from` on that are Adds at offset k
AddsAt(x, k, from) == {j \in from..Len(x) : x[j].op = "Add" /\ OffsetAt(x, j) = k}

\* the wrapping sum of the amounts of the instructions of x at the indices J
RECURSIVE WrappingSum(_, _)
WrappingSum(x, J) ==
    IF J = {} THEN 0
    ELSE LET j == CHOOSE i \in J : TRUE
         IN  Wrap8(x[j].amount + WrappingSum(x, J \ {j}))

\* the offsets at which the instructions from index `from` on hold an Add
AddOffsets(x, from) == {OffsetAt(x, j) : j \in {i \in from..Len(x) : x[i].op = "Add"}}

\* C12 as stated: the recognizer accepts a body exactly when it holds only
\* Move and Add, its net displacement is zero and the wrapping sum of its
\* Adds at offset 0 is 255; so ">+<->+<" is accepted with the map {1 -> 2},
\* and "", "+", "--", "->", "-<", "->+<+" are rejected.
C12_AcceptsAnyDecrement ==
    \A k \in CallsOf("recognize_mul_loop") :
        LET x == calls[k].arg
        IN  /\ calls[k].ret.kind = "Some"
                <=> /\ OnlyMoveAdd(x)
                    /\ NetDisplacement(x) = 0
                    /\ WrappingSum(x, AddsAt(x, 0, 1)) = 255
            /\ x = Body(<<BYTE_GT, BYTE_PLUS, BYTE_LT, BYTE_MINUS,
                          BYTE_GT, BYTE_PLUS, BYTE_LT>>)
                => calls[k].ret = Some((1 :> 2))
            /\ x \in {Body(<<>>), Body(<<BYTE_PLUS>>), Body(<<BYTE_MINUS, BYTE_MINUS>>),
                      Body(<<BYTE_MINUS, BYTE_GT>>), Body(<<BYTE_MINUS, BYTE_LT>>),
                      Body(<<BYTE_MINUS, BYTE_GT, BYTE_PLUS, BYTE_LT, BYTE_PLUS>>)}
                => calls[k].ret = None

\* C12 amended: the recognizer accepts a body exactly when its first
\* instruction is Add{255}, the instructions after it are only Move and Add,
\* none of those Adds is at offset 0 and the net displacement is zero; the
\* map then holds, for every offset with such an Add, the wrapping sum of
\* the Adds there.  So "->++<" is accepted with {1 -> 2}, and ">+<->+<",
\* "", "+", "--", "->", "-<", "->+<+" are rejected.
C12_AcceptsLeadingDecrement ==
    \A k \in CallsOf("recognize_mul_loop") :
        LET x == calls[k].arg
            accepted ==
                /\ x # <<>>
                /\ x[1].op = "Add" /\ x[1].amount = 255
                /\ OnlyMoveAdd(x)
                /\ AddsAt(x, 0, 2) = {}
                /\ NetDisplacement(x) = 0
        IN  /\ calls[k].ret =
                    IF accepted
                    THEN Some([o \in AddOffsets(x, 2) |->
                                  WrappingSum(x, AddsAt(x, o, 2))])
                    ELSE None
            /\ x = Body(<<BYTE_MINUS, BYTE_GT, BYTE_PLUS, BYTE_PLUS, BYTE_LT>>)
                => calls[k].ret = Some((1 :> 2))
            /\ x \in {Body(<<BYTE_GT, BYTE_PLUS, BYTE_LT, BYTE_MINUS,
                             BYTE_GT, BYTE_PLUS, BYTE_LT>>),
                      Body(<<>>), Body(<<BYTE_PLUS>>), Body(<<BYTE_MINUS, BYTE_MINUS>>),
                      Body(<<BYTE_MINUS, BYTE_GT>>), Body(<<BYTE_MINUS, BYTE_LT>>),
                      Body(<<BYTE_MINUS, BYTE_GT, BYTE_PLUS, BYTE_LT, BYTE_PLUS>>)}
                => calls[k].ret = None

\* C12: the recognizer has accepted a body that adds at two offsets or
\* more, with one of the sums wrapping to 254
C12_Witness ==
    \E k \in CallsOf("recognize_mul_loop") :
        /\ calls[k].ret.kind = "Some"
        /\ Cardinality(DOMAIN calls[k].ret.value) >= 2
        /\ \E o \in DOMAIN calls[k].ret.value : calls[k].ret.value[o] = 254

\* seg is what C13 puts in the place of the recognized loop i with
\* the map M: one Mul per entry of M, then one Clear, at the loop's position
IsReplacement(i, M, seg) ==
    LET n == Cardinality(DOMAIN M)
    IN  /\ Len(seg) = n + 1
        /\ seg[n + 1] = Clear(i.position)
        /\ \A j \in 1..n :
              /\ seg[j].op = "Mul"
              /\ seg[j].offset \in DOMAIN M
              /\ seg[j] = Mul(seg[j].offset, M[seg[j].offset], i.position)
        /\ \A o \in DOMAIN M : \E j \in 1..n : seg[j].offset = o

\* out is made from x as C13 says
RECURSIVE RecognizedReplaced(_, _)
RecognizedReplaced(x, out) ==
    IF x = <<>> THEN out = <<>>
    ELSE LET i == Head(x)
             M == IF i.op = "Loop" THEN recognize_mul_loop(i.body) ELSE None
         IN  IF M.kind = "Some"
             THEN LET n == Cardinality(DOMAIN M.value) + 1
                  IN  /\ Len(out) >= n
                      /\ IsReplacement(i, M.value, SubSeq(out, 1, n))
                      /\ RecognizedReplaced(Tail(x), SubSeq(out, n + 1, Len(out)))
             ELSE /\ out # <<>>
                  /\ IF i.op = "Loop"
                     THEN /\ out[1].op = "Loop"
                          /\ out[1].position = i.position
                          /\ RecognizedReplaced(i.body, out[1].body)
                     ELSE out[1] = i
                  /\ RecognizedReplaced(Tail(x), Tail(out))

\* C13: mul-loops replaces every recognized loop, at every depth, by one
\* Mul{offset = k, amount = v} per entry k -> v of its map followed by one
\* Clear, the Clear last; it keeps every other loop, with its body rewritten
\* the same way, and every other instruction.
C13_MulsThenClear ==
    \A k \in CallsOf("MulLoops") : RecognizedReplaced(calls[k].arg, calls[k].ret)

\* C13: mul-loops has replaced a loop inside a loop it kept by two Muls or
\* more and a Clear
C13_Witness ==
    \E k \in CallsOf("MulLoops") :
        \E a \in 1..Min(Len(calls[k].arg), Len(calls[k].ret)) :
            /\ calls[k].arg[a].op = "Loop"
            /\ calls[k].ret[a].op = "Loop"
            /\ \E j \in 1..Len(calls[k].ret[a].body) :
                  /\ j + 2 <= Len(calls[k].ret[a].body)
                  /\ calls[k].ret[a].body[j].op = "Mul"
                  /\ calls[k].ret[a].body[j + 1].op = "Mul"
                  /\ calls[k].ret[a].body[j + 2].op = "Clear"

\* the instructions that are implemented with a loop on the current cell
LoopLike == {"Loop", "Clear", "Mul"}

\* the loop body b, the null increments apart, begins with a loop-like
\* instruction
LeadsWithLoopLike(b) ==
    /\ SelectSeq(b, not_null_increment) # <<>>
    /\ Head(SelectSeq(b, not_null_increment)).op \in LoopLike

\* C14: dead-code drops leading loop-like instructions at the top level
\* only: where it removes nothing at the top level, a Loop, Clear or Mul
\* that is the first instruction of the body of a loop it keeps is still
\* the first instruction of that body in the result.
C14_SkipAtTopLevelOnly ==
    \A k \in CallsOf("DeadCode") :
        LET x == calls[k].arg
            y == calls[k].ret
        IN  Len(y) = Len(x) =>
                \A a \in 1..Len(x) :
                    (x[a].op = "Loop" /\ y[a].op = "Loop" /\ LeadsWithLoopLike(x[a].body))
                        => /\ y[a].body # <<>>
                           /\ y[a].body[1].op
                                = Head(SelectSeq(x[a].body, not_null_increment)).op

\* C15: what dead-code returns for a top-level program does not begin with
\* a Loop, a Clear or a Mul; so the default passes reduce "[+++]" to the
\* empty program.
C15_NoLeadingLoopLike ==
    /\ \A k \in CallsOf("DeadCode") :
          calls[k].ret = <<>> \/ calls[k].ret[1].op \notin LoopLike
    /\ \A k \in CallsOf("Optimizer::run") :
          calls[k].arg = Body(<<BYTE_OPEN, BYTE_PLUS, BYTE_PLUS, BYTE_PLUS, BYTE_CLOSE>>)
              => calls[k].ret = <<>>

\* the number of instructions of x, those of the loop bodies included
RECURSIVE Count(_)
Count(x) ==
    IF x = <<>> THEN 0
    ELSE 1 + (IF Head(x).op = "Loop" THEN Count(Head(x).body) ELSE 0) + Count(Tail(x))

\* the number of instructions of x of the kind op, at every depth
RECURSIVE CountOp(_, _)
CountOp(x, op) ==
    IF x = <<>> THEN 0
    ELSE (IF Head(x).op = op THEN 1 ELSE 0)
            + (IF Head(x).op = "Loop" THEN CountOp(Head(x).body, op) ELSE 0)
            + CountOp(Tail(x), op)

\* C16: collapse-increments never increases the number of instructions,
\* counted over all depths, and leaves the numbers of Input, of Output and
\* of Loop instructions as they were.
C16_CollapseShrinks ==
    \A k \in CallsOf("CollapseIncrements") :
        /\ Count(calls[k].ret) <= Count(calls[k].arg)
        /\ \A op \in {"Input", "Output", "Loop"} :
              CountOp(calls[k].ret, op) = CountOp(calls[k].arg, op)

\* C16: collapse-increments has merged instructions inside the body of a
\* loop of a program that also writes a byte
C16_Witness ==
    \E k \in CallsOf("CollapseIncrements") :
        /\ calls[k].arg # <<>>
        /\ calls[k].arg[1].op = "Loop"
        /\ Count(calls[k].ret[1].body) < Count(calls[k].arg[1].body)
        /\ CountOp(calls[k].arg, "Output") >= 1

\* C18: mul-loops is deterministic: the Muls of a recognized loop come in
\* a fixed order, so two runs on the same instructions return equal
\* sequences.
C18_MulLoopsDeterministic ==
    \A j, k \in CallsOf("MulLoops") :
        calls[j].arg = calls[k].arg => calls[j].ret = calls[k].ret

(***************************************************************************)
(* Properties of save_object and save_executable.                          *)
(***************************************************************************)
\* the files of the call are being written: the call has passed the checks
\* or has created a file
FileWriting ==
    \/ save.pc \in {"target_machine", "write_to_file", "tempfile", "clang"}
    \/ Len(save.frames) > 1
    \/ save.created # {}

\* C17: save_object and save_executable, called on a program compiled with
\* a custom input or a custom output, raise an error before any file is
\* written (no object file, temporary file or executable is created); they
\* reach the file-writing step only when both streams are Stdio.
C17_CustomIoWritesNoFile ==
    /\ (save.io.input = "Custom" \/ save.io.output = "Custom")
          => /\ save.created = {}
             /\ save.pc = "done" => save.result = Panic(CUSTOM_IO_MESSAGE)
    /\ FileWriting => (save.io.input = "Stdio" /\ save.io.output = "Stdio")

\* C17: save_executable has ended on the check of a custom output, the
\* input being Stdio
C17_Witness ==
    /\ save.frames = <<"save_executable">>
    /\ save.io.input = "Stdio"
    /\ save.io.output = "Custom"
    /\ save.pc = "done"
    /\ save.result = Panic(CUSTOM_IO_MESSAGE)

(***************************************************************************)
(* Properties of a recognized loop and of its replacement.                 *)
(***************************************************************************)
\* the value of the current cell when the loop is entered
EntryCount == TapeGet(given.tape, given.tape_position)

\* the factor the map of the body holds for the offset k, 0 if none
Factor(k) ==
    LET M == recognize_mul_loop(given.instructions).value
    IN  IF k \in DOMAIN M THEN M[k] ELSE 0

\* C19: from every interpreter state from which the Loop with an accepted
\* body raises no tape fault, its replacement (the Muls in any order, then
\* the Clear) ends in the state the loop ends in: the pointer where it
\* was, the current cell 0, every cell at offset k increased by the entry
\* value of the current cell times M[k] modulo 256, the other cells as
\* they were.
C19_ReplacementRefinesLoop ==
    (interp.status = "Ok" /\ interp_opt.status # "Running") =>
        /\ interp_opt.status = "Ok"
        /\ interp_opt.tape = interp.tape
        /\ interp_opt.tape_position = interp.tape_position
        /\ interp_opt.tape_position = given.tape_position
        /\ \A i \in 0..(given.tape_len - 1) :
              TapeGet(interp_opt.tape, i) =
                 IF i = given.tape_position THEN 0
                 ELSE Wrap8(TapeGet(given.tape, i)
                            + EntryCount * Factor(i - given.tape_position))

\* C19: the loop and a replacement of two Muls or more have both ended
\* without a fault, from a current cell of 255, and a cell has changed
C19_Witness ==
    /\ interp.status = "Ok"
    /\ interp_opt.status = "Ok"
    /\ EntryCount = 255
    /\ Len(optimized.value) >= 3
    /\ \E i \in 0..(given.tape_len - 1) :
          /\ i # given.tape_position
          /\ TapeGet(interp_opt.tape, i) # TapeGet(given.tape, i)

\* C20: the interpreter always ends the run of a Loop whose body the
\* recognizer accepts: it enters the body exactly as many times as the
\* value of the current cell at the entry and leaves with the current cell
\* 0, unless a tape fault ends the run before.
C20_RecognizedLoopTerminates ==
    /\ <>(interp.status # "Running")
    /\ [](iterations <= EntryCount)
    /\ [](interp.status = "Ok" =>
            /\ iterations = EntryCount
            /\ TapeGet(interp.tape, given.tape_position) = 0)

\* C20: a loop entered with 255 in the current cell has returned
C20_Witness ==
    /\ interp.status = "Ok"
    /\ EntryCount = 255
    /\ iterations = 255
    /\ Len(given.instructions) > 1

(***************************************************************************)
(* Further properties of the recognizer and of the passes.                 *)
(***************************************************************************)
\* the body of test_recognize_mul_loop that adds at four offsets
LongTestBody ==
    LET p == BYTE_PLUS
        m == BYTE_MINUS
        r == BYTE_GT
        l == BYTE_LT
    IN  Body(<<m, r, r, p, p, l, p, p, p, p, r, p, r, p, p, l, l, l, l, m, m, r>>)

\* C21: the map of an accepted body has exactly the offsets k # 0 at which
\* the body holds an Add, each with the wrapping sum of all the Adds made
\* at that offset, however they are interleaved; "->>++<++++>+>++<<<<-->"
\* gives {-1 -> 254, 1 -> 4, 2 -> 3, 3 -> 2} and "-" the empty map.
C21_MapIsSumPerOffset ==
    \A k \in CallsOf("recognize_mul_loop") :
        LET x == calls[k].arg
            M == calls[k].ret.value
        IN  /\ calls[k].ret.kind = "Some" =>
                /\ DOMAIN M = AddOffsets(x, 1) \ {0}
                /\ \A o \in DOMAIN M : M[o] = WrappingSum(x, AddsAt(x, o, 1))
            /\ x = LongTestBody =>
                calls[k].ret = Some((-1 :> 254) @@ (1 :> 4) @@ (2 :> 3) @@ (3 :> 2))
            /\ x = Body(<<BYTE_MINUS>>) => calls[k].ret = Some([o \in {} |-> 0])

\* C21: the recognizer has accepted a body that adds twice or more, apart,
\* at one offset
C21_Witness ==
    \E k \in CallsOf("recognize_mul_loop") :
        /\ calls[k].ret.kind = "Some"
        /\ \E o \in DOMAIN calls[k].ret.value :
              \E i, j \in AddsAt(calls[k].arg, o, 1) :
                 /\ i + 1 < j
                 /\ \E h \in (i + 1)..(j - 1) : calls[k].arg[h].op = "Move"

\* x holds, at some depth, a Mul with offset 0
RECURSIVE HasMulAtZero(_)
HasMulAtZero(x) ==
    \E j \in 1..Len(x) :
        \/ x[j].op = "Mul" /\ x[j].offset = 0
        \/ x[j].op = "Loop" /\ HasMulAtZero(x[j].body)

PassNames == {"CollapseIncrements", "DeadCode", "ClearLoops", "MulLoops"}

\* C22: every Mul has an offset other than 0 at every stage: what mul-loops
\* returns, and what Optimizer::run returns whatever the passes it is made
\* of, holds no Mul with offset 0 when the instructions given held none, as
\* is the case of a parsed program.
C22_NoMulAtOffsetZero ==
    \A k \in 1..Len(calls) :
        (calls[k].fn \in PassNames \cup {"Optimizer::run"} /\ ~HasMulAtZero(calls[k].arg))
            => ~HasMulAtZero(calls[k].ret)

\* C22: Optimizer::run has put two Muls or more in a program that had none
C22_Witness ==
    \E k \in CallsOf("Optimizer::run") :
        /\ CountOp(calls[k].arg, "Mul") = 0
        /\ CountOp(calls[k].ret, "Mul") >= 2

\* x holds, at some depth, a Loop or a Clear with a Loop, a Clear or a Mul
\* right after it
RECURSIVE HasFusablePair(_)
HasFusablePair(x) ==
    \/ \E j \in 1..(Len(x) - 1) :
          x[j].op \in {"Loop", "Clear"} /\ x[j + 1].op \in LoopLike
    \/ \E j \in 1..Len(x) : x[j].op = "Loop" /\ HasFusablePair(x[j].body)

\* C23: dead-code fuses every adjacent pair (X, L), X a Loop or a Clear and
\* L a Loop, a Clear or a Mul, into X, and fuses no pair whose left element
\* is a Mul: its result holds, at no depth, a Loop or a Clear with a Loop,
\* a Clear or a Mul right after it.
C23_FusesLoopLikePairs ==
    \A k \in CallsOf("DeadCode") :
        /\ ~HasFusablePair(calls[k].ret)
        /\ (Len(calls[k].arg) = 2 /\ calls[k].arg[1].op = "Mul"
                /\ calls[k].arg[2].op \in LoopLike)
              => calls[k].ret = calls[k].arg

\* x holds, at some depth, an Add{0} or a Move{0}
RECURSIVE HasNullIncrement(_)
HasNullIncrement(x) ==
    \E j \in 1..Len(x) :
        \/ ~not_null_increment(x[j])
        \/ x[j].op = "Loop" /\ HasNullIncrement(x[j].body)

\* C24: what dead-code returns holds no Add{0} and no Move{0} at any
\* depth, the bodies of the loops nested in the loops it keeps included.
C24_NoNullIncrementLeft ==
    \A k \in CallsOf("DeadCode") : ~HasNullIncrement(calls[k].ret)

\* C24: dead-code has been given null increments in a loop nested in a
\* loop, and has kept both loops
C24_Witness ==
    \E k \in CallsOf("DeadCode") :
        /\ \E a \in 1..Len(calls[k].arg) :
              /\ calls[k].arg[a].op = "Loop"
              /\ \E b \in 1..Len(calls[k].arg[a].body) :
                    /\ calls[k].arg[a].body[b].op = "Loop"
                    /\ HasNullIncrement(calls[k].arg[a].body[b].body)
        /\ \E a \in 1..Len(calls[k].ret) :
              /\ calls[k].ret[a].op = "Loop"
              /\ \E b \in 1..Len(calls[k].ret[a].body) :
                    calls[k].ret[a].body[b].op = "Loop"

\* y is x with instructions deleted, at every depth: what is kept is in the
\* order of x, a Loop with its Position and a body that is the body it had
\* with instructions deleted, any other instruction as it was
RECURSIVE IsDeletion(_, _)
IsDeletion(x, y) ==
    IF y = <<>> THEN TRUE
    ELSE IF x = <<>> THEN FALSE
    ELSE \/ /\ IF Head(x).op = "Loop"
               THEN /\ Head(y).op = "Loop"
                    /\ Head(y).position = Head(x).position
                    /\ IsDeletion(Head(x).body, Head(y).body)
               ELSE Head(y) = Head(x)
            /\ IsDeletion(Tail(x), Tail(y))
         \/ IsDeletion(Tail(x), y)

\* C25: dead-code only removes instructions: at every depth what it
\* returns is what it was given with instructions deleted, the instructions
\* kept being in the same order with the same variant, amount, offset and
\* Position; it adds none and rewrites none.
C25_OnlyRemoves ==
    \A k \in CallsOf("DeadCode") : IsDeletion(calls[k].arg, calls[k].ret)

\* C25: dead-code has removed an instruction at the top and one in the body
\* of a loop it has kept
C25_Witness ==
    \E k \in CallsOf("DeadCode") :
        /\ Len(calls[k].ret) < Len(calls[k].arg)
        /\ \E a \in 1..Len(calls[k].ret), b \in 1..Len(calls[k].arg) :
              /\ calls[k].ret[a].op = "Loop"
              /\ calls[k].arg[b].op = "Loop"
              /\ Count(calls[k].ret[a].body) > 0
              /\ Count(calls[k].ret[a].body) < Count(calls[k].arg[b].body)

\* a and b are of the kinds collapse-increments fuses
SameRun(a, b) == a.op = b.op /\ a.op \in {"Add", "Move", "Clear"}

\* the instruction that stands for a followed by b
Fused(a, b) ==
    CASE a.op = "Add" -> Add(Wrap8(a.amount + b.amount), merge(a.position, b.position))
      [] a.op = "Move" -> Move(a.offset + b.offset, merge(a.position, b.position))
      [] a.op = "Clear" -> Clear(merge(a.position, b.position))

\* x with every maximal run of Adds, of Moves and of Clears fused into one
\* instruction, in x and in the body of every Loop of x
RECURSIVE FuseRuns(_)
FuseRuns(x) ==
    IF x = <<>> THEN <<>>
    ELSE LET h == IF Head(x).op = "Loop"
                  THEN Loop(FuseRuns(Head(x).body), Head(x).position)
                  ELSE Head(x)
             rest == FuseRuns(Tail(x))
         IN  IF rest # <<>> /\ SameRun(h, Head(rest))
             THEN <<Fused(h, Head(rest))>> \o Tail(rest)
             ELSE <<h>> \o rest

\* C26: what collapse-increments returns is what it was given with, in
\* every sequence at every depth, the body of a Loop that is the last or
\* the only instruction of its sequence included, each maximal run of Adds
\* replaced by one Add of their sum mod 256, each maximal run of Moves by
\* one Move of their signed sum and each maximal run of Clears by one
\* Clear, with the merge of the fused Positions; Add{0} and Move{0} may
\* remain.
C26_FusesEveryRun ==
    \A k \in CallsOf("CollapseIncrements") : calls[k].ret = FuseRuns(calls[k].arg)

\* the Loop whose body is the single instruction Add{255}
IsClearIdiom(i) ==
    /\ i.op = "Loop"
    /\ Len(i.body) = 1
    /\ i.body[1].op = "Add"
    /\ i.body[1].amount = 255

\* y is x with exactly the Loops of body [Add{255}] replaced, at every
\* depth, by a Clear with the Position of the Loop
RECURSIVE IdiomsCleared(_, _)
IdiomsCleared(x, y) ==
    /\ Len(y) = Len(x)
    /\ \A j \in 1..Len(x) :
          IF IsClearIdiom(x[j]) THEN y[j] = Clear(x[j].position)
          ELSE IF x[j].op = "Loop"
          THEN /\ y[j].op = "Loop"
               /\ y[j].position = x[j].position
               /\ IdiomsCleared(x[j].body, y[j].body)
          ELSE y[j] = x[j]

\* C27: clear-loops replaces, at every depth, exactly the Loops whose body
\* is the single instruction Add{255} by a Clear with the Position of the
\* Loop, and leaves every other instruction as it was.
C27_ClearsExactlyTheIdiom ==
    \A k \in CallsOf("ClearLoops") : IdiomsCleared(calls[k].arg, calls[k].ret)

\* C27: clear-loops has replaced a loop inside a loop, the outer loop kept
C27_Witness ==
    \E k \in CallsOf("ClearLoops") :
        /\ Len(calls[k].arg) = 1
        /\ calls[k].arg[1].op = "Loop"
        /\ Len(calls[k].arg[1].body) = 1
        /\ IsClearIdiom(calls[k].arg[1].body[1])
        /\ calls[k].ret[1].op = "Loop"
        /\ calls[k].ret[1].body[1].op = "Clear"

\* C28: mul-loops subsumes clear-loops: it rewrites Loop{[Add{255}]} to
\* the single instruction Clear, and mul-loops called on what clear-loops
\* returned for a program returns what mul-loops returns for the program.
C28_MulLoopsSubsumesClearLoops ==
    /\ \A k \in CallsOf("MulLoops") :
          (Len(calls[k].arg) = 1 /\ IsClearIdiom(calls[k].arg[1]))
              => calls[k].ret = <<Clear(calls[k].arg[1].position)>>
    /\ (Len(calls) = 2 /\ calls[1].fn = "ClearLoops" /\ calls[2].fn = "MulLoops")
          => /\ calls[2].arg = calls[1].ret
             /\ calls[2].ret \in returns("MulLoops", given.instructions)
             /\ returns("MulLoops", given.instructions)
                    = returns("MulLoops", calls[1].ret)

\* C28: clear-loops has replaced a loop, and mul-loops, called on the
\* result, another one by a Mul and a Clear
C28_Witness ==
    /\ Len(calls) = 2
    /\ calls[1].fn = "ClearLoops"
    /\ calls[2].fn = "MulLoops"
    /\ calls[1].ret # calls[1].arg
    /\ CountOp(calls[1].ret, "Mul") = 0
    /\ CountOp(calls[2].ret, "Mul") > 0

(***************************************************************************)
(* C29: Optimizer::run calls the passes in list order, ten times the       *)
(* whole list, every pass on what the pass before it returned (the first   *)
(* on the given instructions), and returns what the last call returned;    *)
(* with an empty list it calls nothing and returns the given instructions. *)
(***************************************************************************)
C29_TenRoundsInListOrder ==
    LET ps == optimizer.value.passes
        n == Len(ps)
    IN  /\ \A k \in 1..Len(calls) :
              /\ n > 0
              /\ k <= 10 * n
              /\ calls[k].fn = ps[((k - 1) % n) + 1]
              /\ calls[k].arg = IF k = 1 THEN given.instructions ELSE calls[k - 1].ret
        /\ optimized # Pending
              => /\ Len(calls) = 10 * n
                 /\ optimized.value
                        = IF n = 0 THEN given.instructions ELSE calls[10 * n].ret

\* C29: a run of a list of two different passes has returned something other
\* than what it was given, and its rounds did not all return the same
C29_Witness ==
    /\ optimized # Pending
    /\ Len(optimizer.value.passes) = 2
    /\ optimizer.value.passes[1] # optimizer.value.passes[2]
    /\ optimized.value # given.instructions
    /\ calls[2].ret # optimized.value

(***************************************************************************)
(* C30: when the run of the parsed program has ended with TapeUnderflow or *)
(* TapeOverflow, the run of the program optimized with "all", on the same  *)
(* tape size and the same input, writes no byte the first run did not      *)
(* write at that place, and when it is over it has ended with the same     *)
(* error after the same bytes written.                                     *)
(***************************************************************************)
C30_TapeFaultPreserved ==
    (interp.status \in TapeFault /\ interp_opt.status # "None")
    => /\ IsPrefix(interp_opt.output.value, interp.output.value)
       /\ interp_opt.status # "Running"
            => /\ interp_opt.status = interp.status
               /\ interp_opt.output = interp.output

====
